---- MODULE Spec2Model ----
(***************************************************************************)
(* A model of CloudFusion: a FUSE file system whose blocks live in an S3   *)
(* bucket behind a DynamoDB table used as a write-back LRU cache.          *)
(*                                                                         *)
(* Scale.  A block of the program holds 32768 bytes and an inode 512; the  *)
(* model keeps the code's arithmetic and shrinks the sizes: a block holds  *)
(* BLOCK_SIZE units, an inode INODE_SIZE, a uint64 takes PTR_SIZE units    *)
(* (8 in the code).  A unit is a byte: a natural number, 0 in a new block. *)
(* uint64 arithmetic wraps at U64 (2^64 in the code, beyond every offset   *)
(* of the model here).                                                     *)
(***************************************************************************)
EXTENDS Integers, Sequences, FiniteSets, TLC

\* ---------------------------------------------------------------- constants

BLOCK_SIZE == 12
INODE_SIZE == 6
INODE_WITHOUT_BUFFER_SIZE == 1
NUM_DATA_BLOCKS == 2
PTR_SIZE == 2
ROOT_INODE == 1

INODE_BUFFER_SIZE == INODE_SIZE - INODE_WITHOUT_BUFFER_SIZE
FIRST_DATA_BLOCK_BYTE == INODE_BUFFER_SIZE
FIRST_SINGLY_INDIRECT_BYTE == FIRST_DATA_BLOCK_BYTE + NUM_DATA_BLOCKS * BLOCK_SIZE
FIRST_DOUBLY_INDIRECT_BYTE == FIRST_SINGLY_INDIRECT_BYTE + BLOCK_SIZE * BLOCK_SIZE
FIRST_TRIPLY_INDIRECT_BYTE ==
  FIRST_DOUBLY_INDIRECT_BYTE + BLOCK_SIZE * BLOCK_SIZE * BLOCK_SIZE
IND_BLOCK == NUM_DATA_BLOCKS
IND_BLOCK_SIZE == BLOCK_SIZE * BLOCK_SIZE
DOUB_IND_BLOCK == NUM_DATA_BLOCKS + 1
DOUB_IND_BLOCK_SIZE == BLOCK_SIZE * BLOCK_SIZE * BLOCK_SIZE
TRIP_IND_BLOCK == NUM_DATA_BLOCKS + 2

\* Inodes in one inode block: BLOCK_SIZE / INODE_SIZE in getInode and putInode.
InodesPerBlock == BLOCK_SIZE \div INODE_SIZE

\* The width uint64 arithmetic wraps at, and the width of LinkCount (uint16).
U64 == 2 ^ 24
U16 == 2 ^ 16

\* ------------------------------------------------------------------ helpers

Min(a, b) == IF a < b THEN a ELSE b

\* The elements of a sequence.
SeqSet(q) == {q[k] : k \in 1 .. Len(q)}

\* a - b and a + b on uint64.
U64Sub(a, b) == (a - b + U64) % U64
U64Add(a, b) == (a + b) % U64

\* make([]byte, n)
ZeroBytes(n) == [k \in 1 .. n |-> 0]

\* s[lo:hi] of a Go slice (0-based, half open); the caller keeps lo <= hi <= len.
Slice(s, lo, hi) == [k \in 1 .. (hi - lo) |-> s[lo + k]]

\* copy(dst[at:at+len(src)], src)
Patch(dst, at, src) ==
  [k \in 1 .. Len(dst) |->
     IF k > at /\ k <= at + Len(src) THEN src[k - at] ELSE dst[k]]

\* binary.LittleEndian.PutUint64 of a number below 256: the low byte, then zeros.
PutUint64(n) == [k \in 1 .. PTR_SIZE |-> IF k = 1 THEN n ELSE 0]

\* binary.LittleEndian.Uint64 of the PTR_SIZE units of s from (0-based) j on.
Uint64At(s, j) == s[j + 1]

\* A map without one key, and with one key set.
MapDrop(f, k) == [x \in (DOMAIN f) \ {k} |-> f[x]]
MapPut(f, k, v) == [x \in (DOMAIN f) \cup {k} |-> IF x = k THEN v ELSE f[x]]
EmptyMap == [x \in {} |-> 0]

\* --------------------------------------------------------------- IntStream
\* A stream is [lastInt, stack]; the head of stack is the list's Front().

NewStream(last) == [lastInt |-> last, stack |-> <<>>]

\* next() taking the oldest value put instead of the latest.
IntStream_next_oldest(s) ==
  IF Len(s.stack) = 0
    THEN [val |-> s.lastInt + 1, s |-> [s EXCEPT !.lastInt = s.lastInt + 1]]
    ELSE [val |-> s.stack[Len(s.stack)],
          s |-> [s EXCEPT !.stack = SubSeq(s.stack, 1, Len(s.stack) - 1)]]

\* next(): the value returned and the stream after.
IntStream_next(s) ==
  IF Len(s.stack) = 0
    THEN [val |-> s.lastInt + 1, s |-> [s EXCEPT !.lastInt = s.lastInt + 1]]
    ELSE [val |-> Head(s.stack), s |-> [s EXCEPT !.stack = Tail(s.stack)]]

IntStream_put(s, newInt) == [s EXCEPT !.stack = <<newInt>> \o s.stack]

\* compressStream / decompressStream: lastInt as a little-endian uint64.
compressStream(s) == PutUint64(s.lastInt)
decompressStream(s, buf) == [s EXCEPT !.lastInt = Uint64At(buf, 0)]

\* gob's encoding of a []uint64, in the model's units: a unit that marks the
\* type, a unit with the number of elements, then one unit per element (gob
\* writes an unsigned integer below 128 as one byte, and 0 as the byte 0).
GOB_SLICE == 250

GobEncodeSlice(listArray) == <<GOB_SLICE, Len(listArray)>> \o listArray

\* Decoding fails (an error) on anything that is not a whole message.
GobSliceOk(data) ==
  /\ Len(data) >= 2
  /\ data[1] = GOB_SLICE
  /\ Len(data) = 2 + data[2]

GobDecodeSlice(data) == [k \in 1 .. data[2] |-> data[k + 2]]

Reverse(s) == [k \in 1 .. Len(s) |-> s[Len(s) + 1 - k]]

\* MarshalBinary: the loop takes the front element off the stack until the
\* stack is empty, filling listArray from its last index down; the stream it
\* leaves behind has an empty stack.
IntStream_MarshalBinary(s) ==
  [data |-> GobEncodeSlice(Reverse(s.stack)),
   s    |-> [s EXCEPT !.stack = <<>>]]

\* UnmarshalBinary pushing every decoded entry to the back of the list.
IntStream_UnmarshalBinary_pushBack(s, data) ==
  IF GobSliceOk(data)
    THEN [s |-> [s EXCEPT !.stack = GobDecodeSlice(data)], exit |-> FALSE]
    ELSE [s |-> [s EXCEPT !.stack = <<>>], exit |-> TRUE]

\* UnmarshalBinary: a new list, every decoded entry pushed to the front; a
\* decoding error ends the process (os.Exit(2)).
IntStream_UnmarshalBinary(s, data) ==
  IF GobSliceOk(data)
    THEN [s |-> [s EXCEPT !.stack = Reverse(GobDecodeSlice(data))], exit |-> FALSE]
    ELSE [s |-> [s EXCEPT !.stack = <<>>], exit |-> TRUE]

\* ------------------------------------------------------------------- stores
\* The world the block operations act on:
\*   dynamo, s3   the fast table and the bucket, key -> block
\*   queue        Cache.recentlyUsedQueue, least recently used first
\*   keyHash      the keys Cache.keyHash maps to a non-nil element
\*   cap          Cache.cacheCapacity
\*   dataStream   the global data-block stream
\*   panic        a Go run-time panic was raised
\* A key is <<kind, number>>: the hash prefix of genDataKey and
\* genInodeBlockKey is a function of the rest of the key.
\* An operator named f_step continues the function f with an intermediate
\* result bound to a parameter, where the code binds it to a local variable.

genDataKey(dataNum) == <<"data", dataNum>>
genInodeBlockKey(inodeNum) == <<"inodeBlock", inodeNum \div InodesPerBlock>>
superKey(i) == <<"super", i>>

ZeroInode ==
  [Size |-> 0, LinkCount |-> 0, IsDir |-> 0,
   DataBuf |-> ZeroBytes(INODE_BUFFER_SIZE),
   Data |-> ZeroBytes(NUM_DATA_BLOCKS + 3)]

\* new(DataBlock): all zero; read as inodes, an inode block of zero inodes.
NewDataBlock(key) ==
  IF key[1] = "inodeBlock"
    THEN [k \in 1 .. InodesPerBlock |-> ZeroInode]
    ELSE ZeroBytes(BLOCK_SIZE)

\* An evictBlock that deletes the item and puts nothing to the bucket: what
\* C39 excludes.
Cache_evictBlock_drop(w, key) ==
  IF key \in DOMAIN w.dynamo
    THEN [w EXCEPT !.dynamo = MapDrop(w.dynamo, key)]
    ELSE [w EXCEPT !.panic = TRUE]

\* Cache.evictBlock: DeleteItem returning the old value, then PutObject.  With
\* no item under the key the code dereferences a nil error: a panic.
Cache_evictBlock(w, key) ==
  IF key \in DOMAIN w.dynamo
    THEN [w EXCEPT !.s3 = MapPut(w.s3, key, w.dynamo[key]),
                   !.dynamo = MapDrop(w.dynamo, key)]
    ELSE [w EXCEPT !.panic = TRUE]

\* The end of Cache.addBlock for a new key: PushBack and the keyHash entry,
\* which a panic of evictBlock leaves undone.
Cache_addBlock_track(w, key) ==
  IF w.panic THEN w
  ELSE [w EXCEPT !.queue = Append(w.queue, key), !.keyHash = w.keyHash \cup {key}]

\* An addBlock that evicts nothing.
Cache_addBlock_noEvict(w, data, key) ==
  IF key \notin w.keyHash
    THEN Cache_addBlock_track([w EXCEPT !.dynamo = MapPut(w.dynamo, key, data)], key)
    ELSE [w EXCEPT !.dynamo = MapPut(w.dynamo, key, data),
                   !.queue = Append(SelectSeq(w.queue, LAMBDA x : x # key), key)]

\* Cache.addBlock, PutItem succeeding: for a new key with the queue at
\* capacity the front of the queue is removed and evicted first.
Cache_addBlock(w, data, key) ==
  IF key \notin w.keyHash
    THEN Cache_addBlock_track(
           IF Len(w.queue) = w.cap
             THEN Cache_evictBlock(
                    [w EXCEPT !.dynamo = MapPut(w.dynamo, key, data),
                              !.queue = Tail(w.queue),
                              !.keyHash = w.keyHash \ {Head(w.queue)}],
                    Head(w.queue))
             ELSE [w EXCEPT !.dynamo = MapPut(w.dynamo, key, data)],
           key)
    ELSE [w EXCEPT !.dynamo = MapPut(w.dynamo, key, data),
                   !.queue = Append(SelectSeq(w.queue, LAMBDA x : x # key), key)]

\* A deleteBlock that writes the block to the bucket as an eviction does.
Cache_deleteBlock_evict(w, key) ==
  IF key \notin w.keyHash
    THEN [w |-> w, err |-> TRUE]
    ELSE [w |-> [w EXCEPT !.queue = SelectSeq(w.queue, LAMBDA x : x # key),
                          !.keyHash = w.keyHash \ {key},
                          !.s3 = IF key \in DOMAIN w.dynamo
                                   THEN MapPut(w.s3, key, w.dynamo[key]) ELSE w.s3,
                          !.dynamo = MapDrop(w.dynamo, key)],
          err |-> FALSE]

\* Cache.deleteBlock: an error when the key is not tracked.
Cache_deleteBlock(w, key) ==
  IF key \notin w.keyHash
    THEN [w |-> w, err |-> TRUE]
    ELSE [w |-> [w EXCEPT !.queue = SelectSeq(w.queue, LAMBDA x : x # key),
                          !.keyHash = w.keyHash \ {key},
                          !.dynamo = MapDrop(w.dynamo, key)],
          err |-> FALSE]

\* A getBlock that leaves the queue as it is.
Cache_getBlock_noMove(w, key) ==
  IF key \notin w.keyHash \/ key \notin DOMAIN w.dynamo
    THEN [w |-> w, data |-> <<>>, err |-> TRUE]
    ELSE [w |-> w, data |-> w.dynamo[key], err |-> FALSE]

\* Cache.getBlock: a miss for an untracked key, and for a tracked key with no
\* item in the table.
Cache_getBlock(w, key) ==
  IF key \notin w.keyHash \/ key \notin DOMAIN w.dynamo
    THEN [w |-> w, data |-> <<>>, err |-> TRUE]
    ELSE [w |-> [w EXCEPT !.queue =
                   Append(SelectSeq(w.queue, LAMBDA x : x # key), key)],
          data |-> w.dynamo[key], err |-> FALSE]

RECURSIVE EvictAll(_, _)
EvictAll(w, keys) ==
  IF keys = <<>> \/ w.panic THEN w
  ELSE EvictAll(Cache_evictBlock(w, Head(keys)), Tail(keys))

\* Cache.empty: evictBlock for every element of the queue, front to back; the
\* queue and keyHash themselves are left as they are.
Cache_empty(w) == EvictAll(w, w.queue)

\* A putDataByKey that writes the block through to the bucket.
putDataByKey_through(w, key, data) ==
  [Cache_addBlock(w, data, key) EXCEPT !.s3 = MapPut(@, key, data)]

\* putDataByKey
putDataByKey(w, key, data) == Cache_addBlock(w, data, key)

\* A getDataByKey that does not add what it found in the bucket to the cache.
getDataByKey_noAdd(c, w, key) ==
  IF ~c.err THEN [w |-> c.w, data |-> c.data, err |-> FALSE]
  ELSE IF key \in DOMAIN w.s3
    THEN [w |-> w, data |-> w.s3[key], err |-> FALSE]
    ELSE [w |-> w, data |-> NewDataBlock(key), err |-> TRUE]

\* getDataByKey after cache.getBlock returned c: on a miss the bucket (a hit
\* there is added to the cache), then a new zero block with an error.
getDataByKey_step(c, w, key) ==
  IF ~c.err THEN [w |-> c.w, data |-> c.data, err |-> FALSE]
  ELSE IF key \in DOMAIN w.s3
    THEN [w |-> Cache_addBlock(w, w.s3[key], key), data |-> w.s3[key], err |-> FALSE]
    ELSE [w |-> w, data |-> NewDataBlock(key), err |-> TRUE]

getDataByKey(w, key) == getDataByKey_step(Cache_getBlock(w, key), w, key)

getData(w, dataNum) == getDataByKey(w, genDataKey(dataNum))
getInodeBlock(w, inodeNum) == getDataByKey(w, genInodeBlockKey(inodeNum))
putData(w, dataNum, data) == putDataByKey(w, genDataKey(dataNum), data)
putInodeBlock(w, inodeNum, inodeBlock) ==
  putDataByKey(w, genInodeBlockKey(inodeNum), inodeBlock)

\* deleteBlock: the cache's deleteBlock (c), then DeleteObject on the bucket,
\* which succeeds whether or not the object exists; so no error is returned.
deleteBlock_step(c, key) == [c.w EXCEPT !.s3 = MapDrop(c.w.s3, key)]

deleteBlock(w, dataNum) ==
  deleteBlock_step(Cache_deleteBlock(w, genDataKey(dataNum)), genDataKey(dataNum))

\* ------------------------------------------------------------------- Inode
\* An inode is [Size, LinkCount, IsDir, DataBuf, Data]; UnixTime, which no
\* operation reads back, is left out.

updateSize(i, size) == [i EXCEPT !.Size = size]

createInode(isDir) == [ZeroInode EXCEPT !.IsDir = isDir]

\* What writeBlock, writeIndirect, writeDoubIndirect and writeTripIndirect do
\* with the result g of getData: on an error a new zero block, numbered by
\* dataStream.next().
NewBlockWorld(g) ==
  IF g.err THEN [g.w EXCEPT !.dataStream = IntStream_next(g.w.dataStream).s]
  ELSE g.w
NewBlockNum(g, blockNum) ==
  IF g.err THEN IntStream_next(g.w.dataStream).val ELSE blockNum
NewBlockData(g) == IF g.err THEN ZeroBytes(BLOCK_SIZE) ELSE g.data

\* writeLen of writeBlock.
BlockWriteLen(offset, size) ==
  (IF offset + size > BLOCK_SIZE THEN BLOCK_SIZE ELSE offset + size) - offset

\* writeBlock from the copy on: the block's number and the data left to write.
writeBlock_step(w, num, oldData, data, offset) ==
  [w |-> putData(w, num,
                 Patch(oldData, offset,
                       Slice(data, 0, BlockWriteLen(offset, Len(data))))),
   num |-> num,
   data |-> Slice(data, BlockWriteLen(offset, Len(data)), Len(data))]

writeBlock_got(g, data, offset, blockNum) ==
  writeBlock_step(NewBlockWorld(g), NewBlockNum(g, blockNum), NewBlockData(g),
                  data, offset)

writeBlock(w, data, offset, blockNum) ==
  writeBlock_got(getData(w, blockNum), data, offset, blockNum)

\* The loops of writeIndirect, writeDoubIndirect and writeTripIndirect run on
\* st = [w, block, data, offset]: the world, the pointer block being filled,
\* the data left and the offset.  After a slot was written (r) the slot holds
\* the block's number and the offset is 0.
SlotWritten(r, st, j) ==
  [w |-> r.w, block |-> Patch(st.block, j, PutUint64(r.num)),
   data |-> r.data, offset |-> 0]

LoopStart(g, data, offset) ==
  [w |-> NewBlockWorld(g), block |-> NewBlockData(g), data |-> data,
   offset |-> offset]

\* The block numbers a pointer block holds.
PointersOf(block) ==
  {Uint64At(block, j * PTR_SIZE) : j \in 0 .. (BLOCK_SIZE \div PTR_SIZE) - 1} \ {0}

\* An end of the three that puts a block the pointer block points to once
\* more after the pointer block.
LoopPut_childAfter(st, num) ==
  IF st.w.panic \/ PointersOf(st.block) = {}
    THEN [w |-> st.w, num |-> num, data |-> st.data]
    ELSE [w |-> putData(putData(st.w, num, st.block),
                        CHOOSE c \in PointersOf(st.block) : TRUE,
                        getData(st.w, CHOOSE c \in PointersOf(st.block) : TRUE).data),
          num |-> num, data |-> st.data]

\* The end of the three: putData of the pointer block, unless a panic came first.
LoopPut(st, num) ==
  IF st.w.panic THEN [w |-> st.w, num |-> num, data |-> st.data]
  ELSE [w |-> putData(st.w, num, st.block), num |-> num, data |-> st.data]

\* The loop of writeIndirect over the slots j = 0, 8, 16, ... of the block.
RECURSIVE writeIndirectLoop(_, _)
writeIndirectLoop(st, j) ==
  IF j >= BLOCK_SIZE THEN st
  ELSE writeIndirectLoop(
         IF st.offset < BLOCK_SIZE /\ Len(st.data) > 0
           THEN SlotWritten(writeBlock(st.w, st.data, st.offset,
                                       Uint64At(st.block, j)), st, j)
           ELSE [st EXCEPT !.offset = U64Sub(st.offset, BLOCK_SIZE)],
         j + PTR_SIZE)

writeIndirect_got(g, data, offset, indBlockNum) ==
  LoopPut(writeIndirectLoop(LoopStart(g, data, offset), 0),
          NewBlockNum(g, indBlockNum))

writeIndirect(w, data, offset, indBlockNum) ==
  writeIndirect_got(getData(w, indBlockNum), data, offset, indBlockNum)

RECURSIVE writeDoubIndirectLoop(_, _)
writeDoubIndirectLoop(st, j) ==
  IF j >= BLOCK_SIZE THEN st
  ELSE writeDoubIndirectLoop(
         IF st.offset < IND_BLOCK_SIZE /\ Len(st.data) > 0
           THEN SlotWritten(writeIndirect(st.w, st.data, st.offset,
                                          Uint64At(st.block, j)), st, j)
           ELSE [st EXCEPT !.offset = U64Sub(st.offset, IND_BLOCK_SIZE)],
         j + PTR_SIZE)

writeDoubIndirect_got(g, data, offset, doubBlockNum) ==
  LoopPut(writeDoubIndirectLoop(LoopStart(g, data, offset), 0),
          NewBlockNum(g, doubBlockNum))

writeDoubIndirect(w, data, offset, doubBlockNum) ==
  writeDoubIndirect_got(getData(w, doubBlockNum), data, offset, doubBlockNum)

\* The loop of writeTripIndirect runs j up to DOUB_IND_BLOCK_SIZE, not
\* BLOCK_SIZE: past the block's end, a slot that is to be written is an index
\* out of range (a panic), and with no data left the remaining rounds only
\* change the local offset.
RECURSIVE writeTripIndirectLoop(_, _)
writeTripIndirectLoop(st, j) ==
  IF j >= DOUB_IND_BLOCK_SIZE \/ (j >= BLOCK_SIZE /\ Len(st.data) = 0) \/ st.w.panic
    THEN st
  ELSE writeTripIndirectLoop(
         IF st.offset < DOUB_IND_BLOCK_SIZE /\ Len(st.data) > 0
           THEN IF j >= BLOCK_SIZE
                  THEN [st EXCEPT !.w.panic = TRUE]
                  ELSE SlotWritten(writeDoubIndirect(st.w, st.data, st.offset,
                                                     Uint64At(st.block, j)), st, j)
           ELSE [st EXCEPT !.offset = U64Sub(st.offset, DOUB_IND_BLOCK_SIZE)],
         j + PTR_SIZE)

writeTripIndirect_got(g, data, offset, tripBlockNum) ==
  LoopPut(writeTripIndirectLoop(LoopStart(g, data, offset), 0),
          NewBlockNum(g, tripBlockNum))

writeTripIndirect(w, data, offset, tripBlockNum) ==
  writeTripIndirect_got(getData(w, tripBlockNum), data, offset, tripBlockNum)

\* writeDataBlocks runs on st = [w, i, data, offset]: the world, the inode,
\* the data left and the offset, relative to the first data block.  After
\* i.Data[slot] was written (r) it holds the block's number and the offset is 0.
DataWritten(r, st, slot) ==
  [w |-> r.w, i |-> [st.i EXCEPT !.Data[slot + 1] = r.num],
   data |-> r.data, offset |-> 0]

\* The loop of writeDataBlocks over the direct blocks.
RECURSIVE writeDirectLoop(_, _)
writeDirectLoop(st, j) ==
  IF j >= NUM_DATA_BLOCKS THEN st
  ELSE writeDirectLoop(
         IF st.offset < BLOCK_SIZE /\ Len(st.data) > 0
           THEN DataWritten(writeBlock(st.w, st.data, st.offset, st.i.Data[j + 1]),
                            st, j)
           ELSE [st EXCEPT !.offset = U64Sub(st.offset, BLOCK_SIZE)],
         j + 1)

\* The three conditionals of writeDataBlocks that follow the loop.
writeDataBlocks_ind(st) ==
  IF Len(st.data) > 0 /\ st.offset < FIRST_DOUBLY_INDIRECT_BYTE
    THEN DataWritten(writeIndirect(st.w, st.data, st.offset,
                                   st.i.Data[IND_BLOCK + 1]), st, IND_BLOCK)
    ELSE [st EXCEPT !.offset = U64Sub(st.offset, BLOCK_SIZE * BLOCK_SIZE)]

writeDataBlocks_doub(st) ==
  IF Len(st.data) > 0 /\ st.offset < FIRST_TRIPLY_INDIRECT_BYTE
    THEN DataWritten(writeDoubIndirect(st.w, st.data, st.offset,
                                       st.i.Data[DOUB_IND_BLOCK + 1]),
                     st, DOUB_IND_BLOCK)
    ELSE [st EXCEPT !.offset =
            U64Sub(st.offset, BLOCK_SIZE * BLOCK_SIZE * BLOCK_SIZE)]

writeDataBlocks_trip(st) ==
  IF Len(st.data) > 0
    THEN DataWritten(writeTripIndirect(st.w, st.data, st.offset,
                                       st.i.Data[TRIP_IND_BLOCK + 1]),
                     st, TRIP_IND_BLOCK)
    ELSE st

\* writeDataBlocks: the direct blocks, then the singly, doubly and triply
\* indirect block.
writeDataBlocks(w, i, data, offset) ==
  writeDataBlocks_trip(writeDataBlocks_doub(writeDataBlocks_ind(
    writeDirectLoop([w |-> w, i |-> i, data |-> data, offset |-> offset], 0))))

\* The part of writeToData on the inode's buffer: the inode after updateSize
\* and the copy, the data left, and whether a slice expression was out of
\* range (offset > writeEnd in i.DataBuf[offset:writeEnd], or writeLen beyond
\* the data), in which case the inode keeps what it was given before.
writeToData_buf(i, data, offset) ==
  LET size == Len(data)
      d == U64Sub(size, offset)
      writeEnd == IF d < INODE_BUFFER_SIZE THEN d ELSE INODE_BUFFER_SIZE
      writeLen == U64Sub(writeEnd, offset)
      inBuf == offset < INODE_BUFFER_SIZE
      bad == inBuf /\ (offset > writeEnd \/ writeLen > size)
  IN [i |-> IF inBuf /\ ~bad
              THEN [i EXCEPT !.Size = U64Add(size, offset),
                             !.DataBuf = Patch(i.DataBuf, offset,
                                               Slice(data, 0, writeLen))]
              ELSE updateSize(i, U64Add(size, offset)),
      data |-> IF inBuf /\ ~bad THEN Slice(data, writeLen, size) ELSE data,
      newOffset |-> IF inBuf THEN 0 ELSE offset - INODE_BUFFER_SIZE,
      panic |-> bad]

writeToData_done(st) == [w |-> st.w, i |-> st.i, panic |-> st.w.panic]

writeToData_step(w, b) ==
  IF ~b.panic /\ Len(b.data) > 0
    THEN writeToData_done(writeDataBlocks(w, b.i, b.data, b.newOffset))
    ELSE [w |-> w, i |-> b.i, panic |-> b.panic]

\* writeToData: the world and the inode after, and whether it panicked.
writeToData(w, i, data, offset) ==
  writeToData_step(w, writeToData_buf(i, data, offset))

\* readEnd of readBlock.
BlockReadEnd(offset, leftToRead) ==
  IF leftToRead + offset > BLOCK_SIZE THEN BLOCK_SIZE ELSE offset + leftToRead

\* readBlock with the result g of getData: a block that getData does not find
\* reads as zeros.
readBlock_got(g, data, offset, leftToRead) ==
  [w |-> g.w,
   data |-> Patch(data, Len(data) - leftToRead,
                  Slice(g.data, offset, BlockReadEnd(offset, leftToRead))),
   leftToRead |-> leftToRead - (BlockReadEnd(offset, leftToRead) - offset)]

readBlock(w, data, offset, leftToRead, blockNum) ==
  readBlock_got(getData(w, blockNum), data, offset, leftToRead)

\* The read loops run on st = [w, data, offset, leftToRead]; after a block or
\* a pointer block was read (r) the offset is 0.
ReadDone(r) ==
  [w |-> r.w, data |-> r.data, offset |-> 0, leftToRead |-> r.leftToRead]

ReadStart(g, data, offset, leftToRead) ==
  [w |-> g.w, data |-> data, offset |-> offset, leftToRead |-> leftToRead]

RECURSIVE readIndirectLoop(_, _, _)
readIndirectLoop(st, indBlock, j) ==
  IF j >= BLOCK_SIZE THEN st
  ELSE readIndirectLoop(
         IF st.leftToRead > 0 /\ st.offset < BLOCK_SIZE
           THEN ReadDone(readBlock(st.w, st.data, st.offset, st.leftToRead,
                                   Uint64At(indBlock, j)))
           ELSE [st EXCEPT !.offset = U64Sub(st.offset, BLOCK_SIZE)],
         indBlock, j + PTR_SIZE)

readIndirect_got(g, data, offset, leftToRead) ==
  readIndirectLoop(ReadStart(g, data, offset, leftToRead), g.data, 0)

readIndirect(w, data, offset, leftToRead, indBlockNum) ==
  readIndirect_got(getData(w, indBlockNum), data, offset, leftToRead)

RECURSIVE readDoubIndirectLoop(_, _, _)
readDoubIndirectLoop(st, indBlock, j) ==
  IF j >= BLOCK_SIZE THEN st
  ELSE readDoubIndirectLoop(
         IF st.leftToRead > 0 /\ st.offset < IND_BLOCK_SIZE
           THEN ReadDone(readIndirect(st.w, st.data, st.offset, st.leftToRead,
                                      Uint64At(indBlock, j)))
           ELSE [st EXCEPT !.offset = U64Sub(st.offset, IND_BLOCK_SIZE)],
         indBlock, j + PTR_SIZE)

readDoubIndirect_got(g, data, offset, leftToRead) ==
  readDoubIndirectLoop(ReadStart(g, data, offset, leftToRead), g.data, 0)

readDoubIndirect(w, data, offset, leftToRead, indBlockNum) ==
  readDoubIndirect_got(getData(w, indBlockNum), data, offset, leftToRead)

RECURSIVE readTripIndirectLoop(_, _, _)
readTripIndirectLoop(st, indBlock, j) ==
  IF j >= BLOCK_SIZE THEN st
  ELSE readTripIndirectLoop(
         IF st.leftToRead > 0 /\ st.offset < DOUB_IND_BLOCK_SIZE
           THEN ReadDone(readDoubIndirect(st.w, st.data, st.offset, st.leftToRead,
                                          Uint64At(indBlock, j)))
           ELSE [st EXCEPT !.offset = U64Sub(st.offset, DOUB_IND_BLOCK_SIZE)],
         indBlock, j + PTR_SIZE)

readTripIndirect_got(g, data, offset, leftToRead) ==
  readTripIndirectLoop(ReadStart(g, data, offset, leftToRead), g.data, 0)

readTripIndirect(w, data, offset, leftToRead, indBlockNum) ==
  readTripIndirect_got(getData(w, indBlockNum), data, offset, leftToRead)

RECURSIVE readDirectLoop(_, _, _)
readDirectLoop(st, i, j) ==
  IF j >= NUM_DATA_BLOCKS THEN st
  ELSE readDirectLoop(
         IF st.leftToRead > 0 /\ st.offset < BLOCK_SIZE
           THEN ReadDone(readBlock(st.w, st.data, st.offset, st.leftToRead,
                                   i.Data[j + 1]))
           ELSE [st EXCEPT !.offset = U64Sub(st.offset, BLOCK_SIZE)],
         i, j + 1)

\* The three conditionals of readDataBlocks that follow the loop.
readDataBlocks_ind(st, i) ==
  IF st.leftToRead > 0 /\ st.offset < FIRST_DOUBLY_INDIRECT_BYTE
    THEN ReadDone(readIndirect(st.w, st.data, st.offset, st.leftToRead,
                               i.Data[IND_BLOCK + 1]))
    ELSE [st EXCEPT !.offset = U64Sub(st.offset, BLOCK_SIZE * BLOCK_SIZE)]

readDataBlocks_doub(st, i) ==
  IF st.leftToRead > 0 /\ st.offset < FIRST_TRIPLY_INDIRECT_BYTE
    THEN ReadDone(readDoubIndirect(st.w, st.data, st.offset, st.leftToRead,
                                   i.Data[DOUB_IND_BLOCK + 1]))
    ELSE [st EXCEPT !.offset =
            U64Sub(st.offset, BLOCK_SIZE * BLOCK_SIZE * BLOCK_SIZE)]

readDataBlocks_trip(st, i) ==
  IF st.leftToRead > 0
    THEN ReadDone(readTripIndirect(st.w, st.data, st.offset, st.leftToRead,
                                   i.Data[TRIP_IND_BLOCK + 1]))
    ELSE st

\* readDataBlocks; offset is relative to the first data block.
readDataBlocks(w, i, data, offset, leftToRead) ==
  readDataBlocks_trip(readDataBlocks_doub(readDataBlocks_ind(
    readDirectLoop([w |-> w, data |-> data, offset |-> offset,
                    leftToRead |-> leftToRead], i, 0), i), i), i)

\* The part of readFromData on the inode's buffer: the data read so far, what
\* is left to read and the offset for readDataBlocks: 0 after the buffer was
\* read, else the offset as it came in.
readFromData_buf(i, offset, size) ==
  LET inBuf == offset < INODE_BUFFER_SIZE
      readEnd == IF size + offset < INODE_BUFFER_SIZE
                   THEN size + offset ELSE INODE_BUFFER_SIZE
  IN [data |-> IF inBuf
                 THEN Patch(ZeroBytes(size), 0, Slice(i.DataBuf, offset, readEnd))
                 ELSE ZeroBytes(size),
      leftToRead |-> IF inBuf THEN size - (readEnd - offset) ELSE size,
      offset |-> IF inBuf THEN 0 ELSE offset]

readFromData_done(st) == [w |-> st.w, data |-> st.data, err |-> FALSE]

readFromData_step(w, i, b) ==
  IF b.leftToRead > 0
    THEN readFromData_done(readDataBlocks(w, i, b.data, b.offset, b.leftToRead))
    ELSE [w |-> w, data |-> b.data, err |-> FALSE]

\* readFromData: an error when offset >= Size; else size units from offset.
readFromData(w, i, offset, size) ==
  IF offset >= i.Size THEN [w |-> w, data |-> <<>>, err |-> TRUE]
  ELSE readFromData_step(w, i, readFromData_buf(i, offset, size))

\* The delete loops run on st = [w, numBlocks]: the world and the number of
\* leaf blocks still to delete.  deleteBlock returns no error here.
DeleteStart(g, numBlocks) == [w |-> g.w, numBlocks |-> numBlocks]

\* The end of deleteIndirect, deleteDoubIndirect and deleteTripIndirect: the
\* pointer block itself is deleted.
DeleteEnd(st, indBlockNum) ==
  [w |-> deleteBlock(st.w, indBlockNum), numBlocks |-> st.numBlocks]

RECURSIVE deleteIndirectLoop(_, _, _)
deleteIndirectLoop(st, indBlock, j) ==
  IF j >= BLOCK_SIZE \/ st.numBlocks <= 0 THEN st
  ELSE deleteIndirectLoop(
         [w |-> deleteBlock(st.w, Uint64At(indBlock, j)),
          numBlocks |-> st.numBlocks - 1],
         indBlock, j + PTR_SIZE)

deleteIndirect_got(g, numBlocks, indBlockNum) ==
  DeleteEnd(deleteIndirectLoop(DeleteStart(g, numBlocks), g.data, 0), indBlockNum)

deleteIndirect(w, numBlocks, indBlockNum) ==
  deleteIndirect_got(getData(w, indBlockNum), numBlocks, indBlockNum)

RECURSIVE deleteDoubIndirectLoop(_, _, _)
deleteDoubIndirectLoop(st, indBlock, j) ==
  IF j >= BLOCK_SIZE \/ st.numBlocks <= 0 THEN st
  ELSE deleteDoubIndirectLoop(
         deleteIndirect(st.w, st.numBlocks, Uint64At(indBlock, j)),
         indBlock, j + PTR_SIZE)

deleteDoubIndirect_got(g, numBlocks, indBlockNum) ==
  DeleteEnd(deleteDoubIndirectLoop(DeleteStart(g, numBlocks), g.data, 0),
            indBlockNum)

deleteDoubIndirect(w, numBlocks, indBlockNum) ==
  deleteDoubIndirect_got(getData(w, indBlockNum), numBlocks, indBlockNum)

RECURSIVE deleteTripIndirectLoop(_, _, _)
deleteTripIndirectLoop(st, indBlock, j) ==
  IF j >= BLOCK_SIZE \/ st.numBlocks <= 0 THEN st
  ELSE deleteTripIndirectLoop(
         deleteDoubIndirect(st.w, st.numBlocks, Uint64At(indBlock, j)),
         indBlock, j + PTR_SIZE)

deleteTripIndirect_got(g, numBlocks, indBlockNum) ==
  DeleteEnd(deleteTripIndirectLoop(DeleteStart(g, numBlocks), g.data, 0),
            indBlockNum)

deleteTripIndirect(w, numBlocks, indBlockNum) ==
  deleteTripIndirect_got(getData(w, indBlockNum), numBlocks, indBlockNum)

RECURSIVE deleteDirectLoop(_, _, _)
deleteDirectLoop(st, i, j) ==
  IF j >= NUM_DATA_BLOCKS \/ st.numBlocks <= 0 THEN st
  ELSE deleteDirectLoop(
         [w |-> deleteBlock(st.w, i.Data[j + 1]), numBlocks |-> st.numBlocks - 1],
         i, j + 1)

\* numBlocksToDelete of deleteAllData.
NumBlocksToDelete(i) ==
  IF i.Size <= INODE_BUFFER_SIZE THEN 0
  ELSE ((i.Size - INODE_BUFFER_SIZE) \div BLOCK_SIZE) + 1

\* The three conditionals of deleteAllData that follow the loop.
deleteAllData_ind(st, i) ==
  IF st.numBlocks > 0
    THEN deleteIndirect(st.w, st.numBlocks, i.Data[IND_BLOCK + 1]) ELSE st

deleteAllData_doub(st, i) ==
  IF st.numBlocks > 0
    THEN deleteDoubIndirect(st.w, st.numBlocks, i.Data[DOUB_IND_BLOCK + 1]) ELSE st

deleteAllData_trip(st, i) ==
  IF st.numBlocks > 0
    THEN deleteTripIndirect(st.w, st.numBlocks, i.Data[TRIP_IND_BLOCK + 1]) ELSE st

deleteAllData_done(st) == [w |-> st.w, err |-> st.numBlocks > 0]

\* deleteAllData: err when blocks are left after the triply indirect block.
deleteAllData(w, i) ==
  deleteAllData_done(deleteAllData_trip(deleteAllData_doub(deleteAllData_ind(
    deleteDirectLoop([w |-> w, numBlocks |-> NumBlocksToDelete(i)], i, 0),
    i), i), i))

\* getInode with the result g of getInodeBlock: with the inode block in
\* neither store, a zero inode and an error.
getInode_got(g, inodeNum) ==
  [w |-> g.w,
   inode |-> IF g.err THEN ZeroInode ELSE g.data[(inodeNum % InodesPerBlock) + 1],
   err |-> g.err]

getInode(w, inodeNum) == getInode_got(getInodeBlock(w, inodeNum), inodeNum)

\* putInode writing the inode into a new block each time, the block's other
\* inodes lost: what C32 excludes.
putInode_got_newBlock(g, inode, inodeNum) ==
  IF g.err /\ inodeNum % InodesPerBlock # 0 /\ inodeNum # 1
    THEN [w |-> g.w, err |-> TRUE]
    ELSE [w |-> putInodeBlock(
                  g.w, inodeNum,
                  [NewDataBlock(genInodeBlockKey(inodeNum))
                     EXCEPT ![(inodeNum % InodesPerBlock) + 1] = inode]),
          err |-> FALSE]

\* putInode with the result g of getInodeBlock: a missing inode block is
\* created only for the first inode of a block and for inode 1; for any other
\* inode the error is returned.
putInode_got(g, inode, inodeNum) ==
  IF g.err /\ inodeNum % InodesPerBlock # 0 /\ inodeNum # 1
    THEN [w |-> g.w, err |-> TRUE]
    ELSE [w |-> putInodeBlock(
                  g.w, inodeNum,
                  [(IF g.err THEN NewDataBlock(genInodeBlockKey(inodeNum))
                    ELSE g.data)
                     EXCEPT ![(inodeNum % InodesPerBlock) + 1] = inode]),
          err |-> FALSE]

putInode(w, inode, inodeNum) ==
  putInode_got(getInodeBlock(w, inodeNum), inode, inodeNum)

\* -------------------------------------------------------------- InodeTable
\* A table is [isNil, Table]: Table maps the names present to inode numbers,
\* and isNil says that the Go map is nil (new(InodeTable) not yet decoded).
\* Names are numbered by NameList; an entry's unit is NAME_BASE * index +
\* inode number; the first unit of an encoded table is GOB_MAP + the number
\* of entries.  gob writes a map's entries in the order Go ranges over the
\* map; decoding does not depend on that order, and the model writes them in
\* the order of NameList.

NameList == <<".", "..", "a", "b">>
Names == {NameList[k] : k \in 1 .. Len(NameList)}
NameIdx(name) == CHOOSE k \in 1 .. Len(NameList) : NameList[k] = name
GOB_MAP == 200
NAME_BASE == 16

NilTable == [isNil |-> TRUE, Table |-> EmptyMap]

\* InodeTable.init
InodeTable_init(parentInode, selfInode) ==
  [isNil |-> FALSE,
   Table |-> [n \in {"..", "."} |-> IF n = ".." THEN parentInode ELSE selfInode]]

\* InodeTable.add: an assignment to an entry of a nil map is a panic, which
\* the callers check with isNil before they add.
InodeTable_add(t, fileName, inode) ==
  [t EXCEPT !.Table = MapPut(t.Table, fileName, inode)]

InodeTable_delete(t, fileName) == [t EXCEPT !.Table = MapDrop(t.Table, fileName)]

\* table.Table[name]: 0 for a name that is not there.
TableGet(t, name) == IF name \in DOMAIN t.Table THEN t.Table[name] ELSE 0

RECURSIVE EncodeEntries(_, _)
EncodeEntries(m, k) ==
  IF k > Len(NameList) THEN <<>>
  ELSE (IF NameList[k] \in DOMAIN m
          THEN <<NAME_BASE * k + m[NameList[k]]>> ELSE <<>>)
       \o EncodeEntries(m, k + 1)

\* InodeTable.MarshalBinary
InodeTable_MarshalBinary(t) ==
  <<GOB_MAP + Cardinality(DOMAIN t.Table)>> \o EncodeEntries(t.Table, 1)

EntryOk(u) ==
  /\ u \div NAME_BASE \in 1 .. Len(NameList)
  /\ u % NAME_BASE > 0

TableDataOk(data) ==
  /\ Len(data) >= 1
  /\ data[1] >= GOB_MAP
  /\ Len(data) = 1 + (data[1] - GOB_MAP)
  /\ \A k \in 2 .. Len(data) : EntryOk(data[k])

\* InodeTable.UnmarshalBinary into a new table: on an error the map stays nil.
InodeTable_UnmarshalBinary(data) ==
  IF TableDataOk(data)
    THEN [isNil |-> FALSE,
          Table |-> [n \in {NameList[data[k] \div NAME_BASE] : k \in 2 .. Len(data)} |->
                       LET k == CHOOSE k \in 2 .. Len(data) :
                                  NameList[data[k] \div NAME_BASE] = n
                       IN data[k] % NAME_BASE]]
    ELSE NilTable

getTable_done(r) ==
  [w |-> r.w, table |-> InodeTable_UnmarshalBinary(r.data), err |-> r.err]

\* getTable: the table decoded from the inode's data.
getTable(w, inode) == getTable_done(readFromData(w, inode, 0, inode.Size))

\* The encoded table of a new directory.
InitTableData(parentNum, thisNum) ==
  InodeTable_MarshalBinary(InodeTable_init(parentNum, thisNum))

Inode_init_dir(r, size) ==
  [w |-> r.w, i |-> [updateSize(r.i, size) EXCEPT !.LinkCount = 1]]

\* Inode.init: a directory gets its table written; LinkCount becomes 1.
Inode_init(w, i, parentNum, thisNum) ==
  IF i.IsDir = 1
    THEN Inode_init_dir(writeToData(w, i, InitTableData(parentNum, thisNum), 0),
                        Len(InitTableData(parentNum, thisNum)))
    ELSE [w |-> w, i |-> [i EXCEPT !.LinkCount = 1]]

\* -------------------------------------------------------------- superblock
\* The header of super0 is four uint64: the inode stream's lastInt, the data
\* stream's lastInt, the root inode number, and the length of the encoded
\* stack (the code's 32 = 4 * 8).
SUPER_HEADER == 4 * PTR_SIZE

RECURSIVE makeSuperblocksLoop(_, _, _, _)
makeSuperblocksLoop(superBlocks, inodeListData, j, numBlocksNeeded) ==
  IF j >= numBlocksNeeded THEN superBlocks
  ELSE LET writeEnd == IF Len(inodeListData) > BLOCK_SIZE
                         THEN BLOCK_SIZE ELSE Len(inodeListData)
           block == Patch(ZeroBytes(BLOCK_SIZE), 0, Slice(inodeListData, 0, writeEnd))
       IN makeSuperblocksLoop(Append(superBlocks, block),
                              Slice(inodeListData, writeEnd, Len(inodeListData)),
                              j + 1, numBlocksNeeded)

\* makeSuperblocks: the blocks super0, super1, ... as a sequence.
makeSuperblocks(inode, data, root, inodeListData) ==
  LET inodeListSize == Len(inodeListData)
      header == inode \o data \o PutUint64(root) \o PutUint64(inodeListSize)
      writeEnd == IF inodeListSize + SUPER_HEADER > BLOCK_SIZE
                    THEN BLOCK_SIZE ELSE inodeListSize + SUPER_HEADER
      super == Patch(Patch(ZeroBytes(BLOCK_SIZE), 0, header), SUPER_HEADER,
                     Slice(inodeListData, 0, writeEnd - SUPER_HEADER))
      rest == Slice(inodeListData, writeEnd - SUPER_HEADER, inodeListSize)
  IN makeSuperblocksLoop(<<super>>, rest, 1, 1 + (Len(rest) \div BLOCK_SIZE))

\* One round of the loop of makeFs, with the result g of getDataByKey: the
\* copy into listData[amountRead : amountRead + readEnd], which is a panic
\* when it reaches beyond the end of listData.
makeFsRound(g, st) ==
  LET readEnd == IF st.listSize < BLOCK_SIZE THEN st.listSize ELSE BLOCK_SIZE
  IN IF st.amountRead + readEnd > Len(st.listData)
       THEN [st EXCEPT !.w = [g.w EXCEPT !.panic = TRUE]]
       ELSE [w |-> g.w,
             listData |-> Patch(st.listData, st.amountRead, Slice(g.data, 0, readEnd)),
             listSize |-> st.listSize - readEnd,
             amountRead |-> st.amountRead + readEnd]

\* The loop of makeFs over super1, super2, ..., on st = [w, listData,
\* listSize, amountRead].
RECURSIVE makeFsLoop(_, _, _)
makeFsLoop(st, i, numBlocksNeeded) ==
  IF i >= numBlocksNeeded \/ st.w.panic THEN st
  ELSE makeFsLoop(makeFsRound(getDataByKey(st.w, superKey(i)), st), i + 1,
                  numBlocksNeeded)

\* The header of super0 as makeFs reads it, and what it takes from super0:
\* amountRead starts at readEnd, the header included.
makeFs_super0(w, super) ==
  LET listSize == Uint64At(super, 3 * PTR_SIZE)
      readEnd == IF listSize < BLOCK_SIZE - SUPER_HEADER
                   THEN listSize + SUPER_HEADER ELSE BLOCK_SIZE
  IN [w |-> [w EXCEPT !.dataStream =
               decompressStream(NewStream(0), Slice(super, PTR_SIZE, 2 * PTR_SIZE))],
      listData |-> Patch(ZeroBytes(listSize), 0, Slice(super, SUPER_HEADER, readEnd)),
      listSize |-> listSize - (readEnd - SUPER_HEADER),
      amountRead |-> readEnd]

\* The end of makeFs: the stack is decoded only when listSize, counted down
\* by what was read, is still above 0.  exit: the process ended (a panic, or
\* os.Exit in UnmarshalBinary).
makeFs_done(st, inodeStream0, rootInode0) ==
  IF st.w.panic
    THEN [w |-> st.w, inodeStream |-> inodeStream0, rootInode |-> rootInode0,
          exit |-> TRUE]
  ELSE IF st.listSize > 0
    THEN [w |-> st.w,
          inodeStream |-> IntStream_UnmarshalBinary(inodeStream0, st.listData).s,
          rootInode |-> rootInode0,
          exit |-> IntStream_UnmarshalBinary(inodeStream0, st.listData).exit]
    ELSE [w |-> st.w, inodeStream |-> inodeStream0, rootInode |-> rootInode0,
          exit |-> FALSE]

makeFs_loop(st0, inodeStream0, rootInode0) ==
  makeFs_done(makeFsLoop(st0, 1, 1 + (st0.listSize \div BLOCK_SIZE)),
              inodeStream0, rootInode0)

\* makeFs: the FS (inodeStream, rootInode) read from super0 and its
\* continuation blocks; dataStream, a global, is set in the world.
makeFs(w, super) ==
  makeFs_loop(makeFs_super0(w, super),
              decompressStream(NewStream(0), Slice(super, 0, PTR_SIZE)),
              Uint64At(super, 2 * PTR_SIZE))

\* makeNewSuperblock: super0 of a new file system; both streams start at 1.
makeNewSuperblock ==
  makeSuperblocks(compressStream(NewStream(1)), compressStream(NewStream(1)),
                  ROOT_INODE, IntStream_MarshalBinary(NewStream(1)).data)[1]

makeNewRootInode_put(r) == putInode(r.w, r.i, ROOT_INODE).w

\* makeNewRootInode
makeNewRootInode(w) ==
  makeNewRootInode_put(Inode_init(w, createInode(1), ROOT_INODE, ROOT_INODE))

RECURSIVE putSuperblocks(_, _, _)
putSuperblocks(w, superBlocks, index) ==
  IF index >= Len(superBlocks) THEN w
  ELSE putSuperblocks(putDataByKey(w, superKey(index), superBlocks[index + 1]),
                      superBlocks, index + 1)

\* FS.Destroy: the superblocks are put through the cache, then the cache is
\* emptied.  The world after, and the inode stream as MarshalBinary left it.
FS_Destroy(w, fsInodeStream, fsRootInode) ==
  [w |-> Cache_empty(putSuperblocks(
           w,
           makeSuperblocks(compressStream(fsInodeStream),
                           compressStream(w.dataStream), fsRootInode,
                           IntStream_MarshalBinary(fsInodeStream).data),
           0)),
   inodeStream |-> IntStream_MarshalBinary(fsInodeStream).s]

\* The end of mount, with the result gi of getInode(fs.rootInode): the root
\* inode is made when getInode does not find it.
mount_root(f, gi) ==
  [f EXCEPT !.w = IF gi.err THEN makeNewRootInode(gi.w) ELSE gi.w]

mount_fs(f) == IF f.exit THEN f ELSE mount_root(f, getInode(f.w, f.rootInode))

mount_super(g) == mount_fs(makeFs(g.w, IF g.err THEN makeNewSuperblock ELSE g.data))

\* mount, in a new process (an empty cache of capacity cap over the table and
\* the bucket as they are): super0 is read or made, makeFs run, and the root
\* inode looked up.
mount(dynamo0, s30, cap0) ==
  mount_super(getDataByKey(
    [dynamo |-> dynamo0, s3 |-> s30, queue |-> <<>>, keyHash |-> {},
     cap |-> cap0, dataStream |-> NewStream(0), panic |-> FALSE],
    superKey(0)))

\* ------------------------------------------------------ directory and file
\* The handlers of Dir, DirHandle, File and FileHandle as operators on the
\* world and on the in-memory inode the struct points to (di for a Dir).  A
\* FUSE handler that panics is answered with an error by the serve loop and
\* the process goes on; what the handler changed before stays changed.

\* FS.Root
FS_Root(w, fsRootInode) == getInode(w, fsRootInode)

addFile_put(wr, dNum) ==
  [w |-> putInode(wr.w, wr.i, dNum).w, i |-> wr.i, panic |-> wr.panic]

\* Dir.addFile after readFromData (r): table.add on a table that did not
\* decode is an assignment to an entry of a nil map, a panic.
addFile_read(r, di, dNum, name, inodeNum) ==
  IF InodeTable_UnmarshalBinary(r.data).isNil
    THEN [w |-> r.w, i |-> di, panic |-> TRUE]
    ELSE addFile_put(
           writeToData(r.w, di,
                       InodeTable_MarshalBinary(
                         InodeTable_add(InodeTable_UnmarshalBinary(r.data),
                                        name, inodeNum)),
                       0),
           dNum)

\* Dir.addFile: the world and the directory's inode after.
Dir_addFile(w, di, dNum, name, inodeNum) ==
  addFile_read(readFromData(w, di, 0, di.Size), di, dNum, name, inodeNum)

removeFile_put(wr, dNum, inodeNum) ==
  [w |-> putInode(wr.w, wr.i, dNum).w, i |-> wr.i, inodeNum |-> inodeNum,
   err |-> FALSE]

removeFile_read(r, di, dNum, name) ==
  IF TableGet(InodeTable_UnmarshalBinary(r.data), name) = 0
    THEN [w |-> r.w, i |-> di, inodeNum |-> 0, err |-> TRUE]
    ELSE removeFile_put(
           writeToData(r.w, di,
                       InodeTable_MarshalBinary(
                         InodeTable_delete(InodeTable_UnmarshalBinary(r.data), name)),
                       0),
           dNum, TableGet(InodeTable_UnmarshalBinary(r.data), name))

\* A removeFile that leaves the entry in the table.
Dir_removeFile_keep(w, di, dNum, name) ==
  [w |-> w, i |-> di, inodeNum |-> TableGet(getTable(w, di).table, name),
   err |-> TableGet(getTable(w, di).table, name) = 0]

\* Dir.removeFile: ENOENT (err) when the name is not in the table.
Dir_removeFile(w, di, dNum, name) ==
  removeFile_read(readFromData(w, di, 0, di.Size), di, dNum, name)

Lookup_inode(g, inodeNum) ==
  [w |-> g.w, err |-> FALSE, inodeNum |-> inodeNum, inode |-> g.inode]

Lookup_read(r, name) ==
  IF TableGet(InodeTable_UnmarshalBinary(r.data), name) = 0
    THEN [w |-> r.w, err |-> TRUE, inodeNum |-> 0, inode |-> ZeroInode]
    ELSE Lookup_inode(getInode(r.w, TableGet(InodeTable_UnmarshalBinary(r.data), name)),
                      TableGet(InodeTable_UnmarshalBinary(r.data), name))

\* Dir.Lookup: ENOENT (err), or the child's inode number and its inode as
\* getInode returned it (an error of getInode is only printed); the child is
\* a Dir when inode.IsDir = 1 and a File otherwise.
Dir_Lookup(w, di, name) == Lookup_read(readFromData(w, di, 0, di.Size), name)

Rename_add(ad, rm, same) ==
  [w |-> ad.w, di |-> IF same THEN ad.i ELSE rm.i, ndi |-> ad.i,
   err |-> FALSE, panic |-> ad.panic]

Rename_remove(rm, di, ndi, ndNum, newName, same) ==
  IF rm.err
    THEN [w |-> rm.w, di |-> di, ndi |-> ndi, err |-> TRUE, panic |-> FALSE]
    ELSE Rename_add(Dir_addFile(rm.w, IF same THEN rm.i ELSE ndi, ndNum, newName,
                                rm.inodeNum),
                    rm, same)

\* Dir.Rename: di and ndi are the inodes of d and newDir; same says that d
\* and newDir are one struct.
Dir_Rename(w, di, dNum, oldName, ndi, ndNum, newName, same) ==
  Rename_remove(Dir_removeFile(w, di, dNum, oldName), di, ndi, ndNum, newName, same)

Remove_fail(w, di, ins) ==
  [w |-> w, di |-> di, inodeStream |-> ins, err |-> TRUE, inodeNum |-> 0]

Remove_entry(rm, ins, inodeNum) ==
  [w |-> rm.w, di |-> rm.i, inodeStream |-> ins, err |-> rm.err,
   inodeNum |-> inodeNum]

Remove_put(w, inode, ins, di, dNum, name, inodeNum) ==
  Remove_entry(Dir_removeFile(putInode(w, inode, inodeNum).w, di, dNum, name),
               ins, inodeNum)

Remove_deleted(da, inode, ins, di, dNum, name, inodeNum) ==
  IF da.err THEN Remove_fail(da.w, di, ins)
  ELSE Remove_put(da.w, inode, IntStream_put(ins, inodeNum), di, dNum, name, inodeNum)

\* inode.LinkCount-- on a uint16, and what follows it.
Remove_unlink(w, inode, ins, di, dNum, name, inodeNum) ==
  IF (inode.LinkCount + U16 - 1) % U16 = 0
    THEN Remove_deleted(deleteAllData(w, inode), [inode EXCEPT !.LinkCount = 0],
                        ins, di, dNum, name, inodeNum)
    ELSE Remove_put(w, [inode EXCEPT !.LinkCount = (inode.LinkCount + U16 - 1) % U16],
                    ins, di, dNum, name, inodeNum)

Remove_empty(rt, inode, ins, di, dNum, name, inodeNum) ==
  IF rt.err \/ Cardinality(DOMAIN rt.table.Table) # 2
    THEN Remove_fail(rt.w, di, ins)
    ELSE Remove_unlink(rt.w, inode, ins, di, dNum, name, inodeNum)

Remove_inode(g, reqDir, ins, di, dNum, name, inodeNum) ==
  IF g.err THEN Remove_fail(g.w, di, ins)
  ELSE IF reqDir /\ g.inode.IsDir = 1
    THEN Remove_empty(getTable(g.w, g.inode), g.inode, ins, di, dNum, name, inodeNum)
    ELSE Remove_unlink(g.w, g.inode, ins, di, dNum, name, inodeNum)

Remove_table(t, reqDir, ins, di, dNum, name) ==
  IF TableGet(t.table, name) = 0 THEN Remove_fail(t.w, di, ins)
  ELSE Remove_inode(getInode(t.w, TableGet(t.table, name)), reqDir, ins, di, dNum,
                    name, TableGet(t.table, name))

\* Dir.Remove: the world, the directory's inode and the inode stream after,
\* whether it returned an error, and the inode number of the entry.
Dir_Remove(w, di, dNum, name, reqDir, ins) ==
  Remove_table(getTable(w, di), reqDir, ins, di, dNum, name)

Create_fail(w, di, ins) ==
  [w |-> w, di |-> di, inodeStream |-> ins, inode |-> ZeroInode, inodeNum |-> 0,
   err |-> TRUE, panic |-> FALSE]

Create_new(ad, nx, inode) ==
  [w |-> ad.w, di |-> ad.i, inodeStream |-> nx.s, inode |-> inode,
   inodeNum |-> nx.val, err |-> FALSE, panic |-> ad.panic]

Create_old(g, di, ins, inodeNum) ==
  IF g.err THEN Create_fail(g.w, di, ins)
  ELSE [w |-> g.w, di |-> di, inodeStream |-> ins, inode |-> g.inode,
        inodeNum |-> inodeNum, err |-> FALSE, panic |-> FALSE]

Create_table(t, di, dNum, name, ins) ==
  IF t.err THEN Create_fail(t.w, di, ins)
  ELSE IF TableGet(t.table, name) = 0
    THEN Create_new(Dir_addFile(t.w, di, dNum, name, IntStream_next(ins).val),
                    IntStream_next(ins),
                    Inode_init(t.w, createInode(0), dNum, IntStream_next(ins).val).i)
    ELSE Create_old(getInode(t.w, TableGet(t.table, name)), di, ins,
                    TableGet(t.table, name))

\* Dir.Create: the new inode is given to the File and the FileHandle and is
\* not put; an existing entry is opened.
Dir_Create(w, di, dNum, name, ins) ==
  Create_table(getTable(w, di), di, dNum, name, ins)

Mkdir_done(ad, err, inode, nx) ==
  [w |-> ad.w, di |-> ad.i, inodeStream |-> nx.s, inode |-> inode,
   inodeNum |-> nx.val, err |-> err, panic |-> ad.panic]

Mkdir_add(p, inode, di, dNum, name, nx) ==
  Mkdir_done(Dir_addFile(p.w, di, dNum, name, nx.val), p.err, inode, nx)

Mkdir_put(r, di, dNum, name, nx) ==
  Mkdir_add(putInode(r.w, r.i, nx.val), r.i, di, dNum, name, nx)

\* Dir.Mkdir: the entry is added whether or not putInode of the new inode
\* succeeded; err is putInode's.
Dir_Mkdir(w, di, dNum, name, ins) ==
  Mkdir_put(Inode_init(w, createInode(1), dNum, IntStream_next(ins).val),
            di, dNum, name, IntStream_next(ins))

Open_read(r) ==
  [w |-> r.w, table |-> InodeTable_UnmarshalBinary(r.data), err |-> r.err]

\* Dir.Open: the handle's table is what the directory's inode holds now.
Dir_Open(w, di) == Open_read(readFromData(w, di, 0, di.Size))

Release_put(wr, inodeNum) ==
  [w |-> putInode(wr.w, wr.i, inodeNum).w, i |-> wr.i,
   err |-> putInode(wr.w, wr.i, inodeNum).err]

\* DirHandle.Release: the handle's table is written to the inode, which is put.
DirHandle_Release(w, inode, table, inodeNum) ==
  Release_put(writeToData(w, inode, InodeTable_MarshalBinary(table), 0), inodeNum)

\* DirHandle.ReadDirAll: getInode for every entry of the handle's table, in
\* the order Go ranges over the map; order lists the entries' inode numbers.
RECURSIVE DirHandle_ReadDirAll(_, _)
DirHandle_ReadDirAll(w, order) ==
  IF order = <<>> THEN w
  ELSE DirHandle_ReadDirAll(getInode(w, Head(order)).w, Tail(order))

\* FileHandle.Write, FileHandle.Read, FileHandle.Release
FileHandle_Write(w, inode, data, offset) == writeToData(w, inode, data, offset)
FileHandle_Read(w, inode, offset, size) == readFromData(w, inode, offset, size)
FileHandle_Release(w, inode, inodeNum) == putInode(w, inode, inodeNum)

\* ==================================================================== state

VARIABLES
  dynamo,       \* the DynamoDB table: key -> block
  s3,           \* the S3 bucket: key -> block
  queue,        \* Cache.recentlyUsedQueue
  keyHash,      \* the keys of Cache.keyHash with a non-nil element
  cap,          \* Cache.cacheCapacity
  dataStream,   \* the global dataStream
  inodeStream,  \* FS.inodeStream
  rootInode,    \* FS.rootInode
  phase,        \* "mounted", "down" (after Destroy), "exit" (the process died)
  nodes,        \* the Dir and File structs in memory, each with its inode
  handles,      \* the open DirHandle and FileHandle structs
  last,         \* the last operation: its arguments, results and state before
  ghost         \* what the claims compare the state with (no program state)

vars == <<dynamo, s3, queue, keyHash, cap, dataStream, inodeStream, rootInode,
          phase, nodes, handles, last, ghost>>

World ==
  [dynamo |-> dynamo, s3 |-> s3, queue |-> queue, keyHash |-> keyHash, cap |-> cap,
   dataStream |-> dataStream, panic |-> FALSE]

SetWorld(w) ==
  /\ dynamo' = w.dynamo
  /\ s3' = w.s3
  /\ queue' = w.queue
  /\ keyHash' = w.keyHash
  /\ cap' = w.cap
  /\ dataStream' = w.dataStream

WorldIs(w) ==
  /\ dynamo = w.dynamo
  /\ s3 = w.s3
  /\ queue = w.queue
  /\ keyHash = w.keyHash
  /\ cap = w.cap
  /\ dataStream = w.dataStream

worldVars == <<dynamo, s3, queue, keyHash, cap, dataStream>>

EmptyWorld(c) ==
  [dynamo |-> EmptyMap, s3 |-> EmptyMap, queue |-> <<>>, keyHash |-> {}, cap |-> c,
   dataStream |-> NewStream(1), panic |-> FALSE]

\* ============================================================== SpecStream
\* One IntStream (inodeStream) under next, put and the round trip of
\* streamTest (MarshalBinary, a new list, UnmarshalBinary).  ghost is the
\* sequence of the values put and not yet returned, the latest last.

MaxInt == 5

StreamInit ==
  /\ WorldIs(EmptyWorld(1))
  /\ inodeStream = NewStream(1)
  /\ rootInode = ROOT_INODE
  /\ phase = "stream"
  /\ nodes = <<>>
  /\ handles = <<>>
  /\ last = [op |-> "init"]
  /\ ghost = <<>>

\* next()
StreamNext ==
  /\ phase = "stream"
  /\ inodeStream.lastInt < MaxInt \/ inodeStream.stack # <<>>
  /\ LET r == IntStream_next(inodeStream)
     IN /\ inodeStream' = r.s
        /\ last' = [op |-> "next", val |-> r.val, before |-> inodeStream,
                    owed |-> ghost]
  /\ ghost' = IF ghost = <<>> THEN ghost ELSE SubSeq(ghost, 1, Len(ghost) - 1)
  /\ UNCHANGED <<worldVars, rootInode, phase, nodes, handles>>

\* put(n), of a number the stream handed out and does not hold.
StreamPut ==
  /\ phase = "stream"
  /\ \E n \in 2 .. inodeStream.lastInt :
       /\ \A k \in 1 .. Len(ghost) : ghost[k] # n
       /\ inodeStream' = IntStream_put(inodeStream, n)
       /\ last' = [op |-> "put", val |-> n, before |-> inodeStream]
       /\ ghost' = Append(ghost, n)
  /\ UNCHANGED <<worldVars, rootInode, phase, nodes, handles>>

\* data := MarshalBinary(); stack = new(list.List); UnmarshalBinary(data)
StreamRoundTrip ==
  /\ phase = "stream"
  /\ LET m == IntStream_MarshalBinary(inodeStream)
         u == IntStream_UnmarshalBinary([m.s EXCEPT !.stack = <<>>], m.data)
     IN /\ inodeStream' = u.s
        /\ last' = [op |-> "roundtrip", before |-> inodeStream, data |-> m.data,
                    exit |-> u.exit]
  /\ UNCHANGED <<worldVars, rootInode, phase, nodes, handles, ghost>>

StreamNext_ == StreamNext \/ StreamPut \/ StreamRoundTrip

SpecStream == StreamInit /\ [][StreamNext_]_vars

\* C7: a value returned by next() is the latest value put and not yet
\* returned, with lastInt unchanged and that value off the stack; with no
\* such value it is lastInt + 1, and lastInt has grown by exactly one.
C7_NextIsLifoOrLastPlusOne ==
  last.op = "next" =>
    IF last.owed # <<>>
      THEN /\ last.val = last.owed[Len(last.owed)]
           /\ inodeStream.lastInt = last.before.lastInt
           /\ inodeStream.stack = Tail(last.before.stack)
      ELSE /\ last.val = last.before.lastInt + 1
           /\ inodeStream.lastInt = last.before.lastInt + 1
           /\ inodeStream.stack = <<>>

\* A next() that took a put value back while others were still on the stack.
C7_Witness ==
  /\ last.op = "next"
  /\ Len(last.owed) >= 2
  /\ last.val = last.owed[Len(last.owed)]
  /\ inodeStream.stack # <<>>

\* C8: after MarshalBinary followed by UnmarshalBinary of its output, the
\* stack holds the same elements in the same order as before (so next()
\* returns the same values), lastInt is what it was, and decoding did not fail.
C8_MarshalRoundTrip ==
  last.op = "roundtrip" =>
    /\ ~last.exit
    /\ inodeStream.stack = last.before.stack
    /\ inodeStream.lastInt = last.before.lastInt

\* A round trip of a stack of three, and one of the empty stack.
C8_Witness ==
  /\ last.op = "roundtrip"
  /\ Len(last.before.stack) = 3
  /\ last.before.stack[1] < last.before.stack[2]
  /\ inodeStream.stack = last.before.stack

C8_WitnessEmpty ==
  /\ last.op = "roundtrip"
  /\ last.before.stack = <<>>
  /\ inodeStream.stack = <<>>

\* =============================================================== SpecSuper
\* Clean shutdown and remount over allocator states of every size: a file
\* system just mounted on an empty table and bucket, whose inode stream has
\* handed out 2 .. lastInt and got back the numbers on its stack.

MaxStack == 15
MaxDataLast == 3
MaxCap == 2

\* Stacks of n freed inode numbers, in rising and in falling order.
StackOf(n, rising) == [k \in 1 .. n |-> IF rising THEN k + 1 ELSE n + 2 - k]

SuperInit ==
  /\ \E c \in 1 .. MaxCap, n \in 0 .. MaxStack, rising \in BOOLEAN,
        extra \in 0 .. 1, dl \in 1 .. MaxDataLast :
       LET m == mount(EmptyMap, EmptyMap, c)
       IN /\ WorldIs([m.w EXCEPT !.dataStream = NewStream(dl)])
          /\ inodeStream = [lastInt |-> n + 1 + extra, stack |-> StackOf(n, rising)]
          /\ rootInode = m.rootInode
  /\ phase = "mounted"
  /\ nodes = <<>>
  /\ handles = <<>>
  /\ last = [op |-> "init"]
  /\ ghost = <<>>

\* FS.Destroy, on unmount or on a signal; the process ends.
SuperDestroy ==
  /\ phase = "mounted"
  /\ LET r == FS_Destroy(World, inodeStream, rootInode)
     IN /\ SetWorld(r.w)
        /\ inodeStream' = r.inodeStream
  /\ phase' = "down"
  /\ last' = [op |-> "destroy", inodeStream |-> inodeStream,
              dataStream |-> dataStream, rootInode |-> rootInode]
  /\ UNCHANGED <<rootInode, nodes, handles, ghost>>

\* The program started again: mount with a new, empty cache.
SuperMount ==
  /\ phase = "down"
  /\ \E c \in 1 .. MaxCap :
       LET m == mount(dynamo, s3, c)
       IN /\ SetWorld(m.w)
          /\ inodeStream' = m.inodeStream
          /\ rootInode' = m.rootInode
          /\ phase' = IF m.exit THEN "exit" ELSE "mounted"
  /\ last' = [op |-> "mount", shutdown |-> last]
  /\ UNCHANGED <<nodes, handles, ghost>>

SuperNext == SuperDestroy \/ SuperMount

SpecSuper == SuperInit /\ [][SuperNext]_vars

\* The unit at position pos of super0, super1, ... laid end to end, as the
\* bucket holds them; -1 where no such block is stored.
StoredSuperUnit(pos) ==
  LET key == superKey(pos \div BLOCK_SIZE)
  IN IF key \in DOMAIN s3 THEN s3[key][(pos % BLOCK_SIZE) + 1] ELSE -1

\* The header and the encoded stack of an allocator state.
ExpectedSuper(ins, ds, root) ==
  LET listData == GobEncodeSlice(Reverse(ins.stack))
  IN PutUint64(ins.lastInt) \o PutUint64(ds.lastInt) \o PutUint64(root)
     \o PutUint64(Len(listData)) \o listData

\* C3: when Destroy has completed, super0, super1, ... in the bucket hold the
\* allocator state Destroy started with: both lastInt, the root inode number,
\* the length of the encoded stack and every unit of the encoded stack.
C3_SuperblockReflectsAllocator ==
  last.op = "destroy" =>
    LET want == ExpectedSuper(last.inodeStream, last.dataStream, last.rootInode)
    IN \A k \in 1 .. Len(want) : StoredSuperUnit(k - 1) = want[k]

\* C4: a mount that follows a clean shutdown has the inode stream (lastInt and
\* stack) and the data stream's lastInt of the shutdown.
C4_MountRestoresStreams ==
  (last.op = "mount" /\ last.shutdown.op = "destroy") =>
    /\ phase = "mounted"
    /\ inodeStream = last.shutdown.inodeStream
    /\ dataStream.lastInt = last.shutdown.dataStream.lastInt

\* =============================================================== SpecInode
\* One file inode in memory, written piece by piece as writeTest does: each
\* write appends the next chunk of the content at the offset the content has
\* reached.  ghost is the content handed to the writes so far, and their count.

MaxWrites == 3
ChunkSizes == {1, 2, 3, 5, 8, 30}
ReadOffsets == {0, 1, INODE_BUFFER_SIZE, INODE_BUFFER_SIZE + 1}

\* The unit of the content at (0-based) position p; never 0, so that a unit
\* that was not stored reads differently.
ContentUnit(p) == p + 1
Chunk(offset, n) == [k \in 1 .. n |-> ContentUnit(offset + k - 1)]

InodeInit ==
  /\ \E c \in 1 .. MaxCap :
       LET m == mount(EmptyMap, EmptyMap, c)
           nx == IntStream_next(m.inodeStream)
           r == Inode_init(m.w, createInode(0), m.rootInode, nx.val)
       IN /\ WorldIs(r.w)
          /\ inodeStream = nx.s
          /\ rootInode = m.rootInode
          /\ nodes = <<[inode |-> r.i, inodeNum |-> nx.val]>>
  /\ phase = "mounted"
  /\ handles = <<>>
  /\ last = [op |-> "init"]
  /\ ghost = [content |-> <<>>, writes |-> 0]

\* inode.writeToData(chunk, offset) for the next chunk of the content.  A panic
\* ends the process.
InodeWrite ==
  /\ phase = "mounted"
  /\ ghost.writes < MaxWrites
  /\ \E n \in ChunkSizes :
       LET offset == Len(ghost.content)
           data == Chunk(offset, n)
           r == writeToData(World, nodes[1].inode, data, offset)
       IN /\ SetWorld(r.w)
          /\ nodes' = [nodes EXCEPT ![1].inode = r.i]
          /\ phase' = IF r.panic THEN "exit" ELSE "mounted"
          /\ last' = [op |-> "write", offset |-> offset, size |-> n, panic |-> r.panic,
                      sizeBefore |-> nodes[1].inode.Size]
          /\ ghost' = [content |-> ghost.content \o data, writes |-> ghost.writes + 1]
  /\ UNCHANGED <<inodeStream, rootInode, handles>>

\* inode.writeToData(piece, offset) for a piece the content already has at
\* offset: the content stays what it is.
InodeRewrite ==
  /\ phase = "mounted"
  /\ ghost.writes < MaxWrites
  /\ \E offset \in ReadOffsets, n \in ChunkSizes :
       LET r == writeToData(World, nodes[1].inode, Chunk(offset, n), offset)
       IN /\ offset + n <= Len(ghost.content)
          /\ SetWorld(r.w)
          /\ nodes' = [nodes EXCEPT ![1].inode = r.i]
          /\ phase' = IF r.panic THEN "exit" ELSE "mounted"
          /\ last' = [op |-> "rewrite", offset |-> offset, size |-> n,
                      panic |-> r.panic, sizeBefore |-> nodes[1].inode.Size]
          /\ ghost' = [ghost EXCEPT !.writes = ghost.writes + 1]
  /\ UNCHANGED <<inodeStream, rootInode, handles>>

\* inode.readFromData(0, size) before the first write.
InodeReadNew ==
  /\ phase = "mounted"
  /\ ghost.writes = 0
  /\ \E size \in {0, 1} :
       LET r == readFromData(World, nodes[1].inode, 0, size)
       IN /\ SetWorld(r.w)
          /\ last' = [op |-> "readNew", offset |-> 0, size |-> size,
                      data |-> r.data, err |-> r.err]
  /\ UNCHANGED <<inodeStream, rootInode, phase, nodes, handles, ghost>>

\* inode.readFromData(offset, size)
InodeRead ==
  /\ phase = "mounted"
  /\ \E offset \in ReadOffsets, size \in {1, Len(ghost.content)} :
       LET r == readFromData(World, nodes[1].inode, offset, size)
       IN /\ size > 0
          /\ offset + size <= Len(ghost.content)
          /\ SetWorld(r.w)
          /\ last' = [op |-> "read", offset |-> offset, size |-> size,
                      data |-> r.data, err |-> r.err]
  /\ UNCHANGED <<inodeStream, rootInode, phase, nodes, handles, ghost>>

InodeDeleted(r, i) ==
  /\ SetWorld(r.w)
  /\ phase' = "deleted"
  /\ last' = [op |-> "delete", size |-> i.Size, numBlocks |-> NumBlocksToDelete(i),
              err |-> r.err]
  /\ UNCHANGED <<inodeStream, rootInode, nodes, handles, ghost>>

\* inode.deleteAllData(), as Dir.Remove calls it for the last link; the
\* inode is not used after it.
InodeDelete ==
  /\ phase = "mounted"
  /\ InodeDeleted(deleteAllData(World, nodes[1].inode), nodes[1].inode)

InodeNext ==
  \/ InodeWrite \/ InodeRewrite \/ InodeRead
  \/ InodeReadNew \/ InodeDelete

SpecInode == InodeInit /\ [][InodeNext]_vars

\* C1: once the content has been written piece by piece, each piece at the
\* offset it has in the content, readFromData(0, length of the content)
\* succeeds and returns the content.
C1_WriteReadRoundTrip ==
  (last.op = "write" /\ phase \in {"mounted", "exit"}) =>
    LET r == readFromData(World, nodes[1].inode, 0, Len(ghost.content))
    IN ~last.panic /\ ~r.err /\ r.data = ghost.content

\* C12: an inode that was never written (Size 0) answers readFromData(0, 0)
\* with an empty result and no error, and readFromData(0, 1) with the error
\* of an offset past the end.
C12_ReadOfNewInode ==
  last.op = "readNew" =>
    /\ nodes[1].inode.Size = 0
    /\ last.size = 0 => (~last.err /\ last.data = <<>>)
    /\ last.size = 1 => last.err

\* C13: writeToData(data, offset) leaves Size at the larger of the Size
\* before and offset + len(data); a write that ends before the end of the
\* content does not make Size smaller.
C13_WriteSetsSizeToMax ==
  (last.op \in {"write", "rewrite"} /\ ~last.panic) =>
    nodes[1].inode.Size =
      IF last.sizeBefore > last.offset + last.size
        THEN last.sizeBefore ELSE last.offset + last.size

\* C25: readFromData(o, n) at an offset o past the inode's buffer and before
\* Size returns the units of the content at positions o .. o + n - 1, the ones
\* writeToData stored at data-block position o - INODE_BUFFER_SIZE.
C25_ReadMapsOffsetAsWrite ==
  (/\ last.op = "read"
   /\ last.offset >= INODE_BUFFER_SIZE
   /\ last.offset < nodes[1].inode.Size) =>
    /\ ~last.err
    /\ last.data = Chunk(last.offset, last.size)

\* The keys of data blocks in the fast table or in the bucket.
DataKeys == {k \in (DOMAIN dynamo) \cup (DOMAIN s3) : k[1] = "data"}

\* C30: as long as every write lay inside the inode's buffer, the written
\* units are in the buffer at their offsets and nowhere else: no number was
\* taken from the data stream, the inode has no data block and the stores
\* hold none.
C30_InlineWriteStaysInline ==
  (last.op \in {"write", "rewrite"} /\ Len(ghost.content) <= INODE_BUFFER_SIZE) =>
    /\ ~last.panic
    /\ nodes[1].inode.DataBuf =
         ghost.content \o ZeroBytes(INODE_BUFFER_SIZE - Len(ghost.content))
    /\ dataStream = NewStream(1)
    /\ nodes[1].inode.Data = ZeroBytes(NUM_DATA_BLOCKS + 3)
    /\ DataKeys = {}

\* a / b rounded up.
CeilDiv(a, b) == (a + b - 1) \div b

\* C28: deleteAllData deletes ceil(max(0, Size - INODE_BUFFER_SIZE) /
\* BLOCK_SIZE) leaf blocks, also when Size - INODE_BUFFER_SIZE is a multiple
\* of BLOCK_SIZE.
C28_DeletesCeilBlocks ==
  last.op = "delete" =>
    last.numBlocks =
      CeilDiv(IF last.size > INODE_BUFFER_SIZE
                THEN last.size - INODE_BUFFER_SIZE ELSE 0,
              BLOCK_SIZE)

\* =============================================================== SpecOrder
\* One file inode under writes that reach the direct blocks, the singly and
\* the doubly indirect block, with a cache that holds every block: the LRU
\* sequence then lists the blocks in the order of their latest getData or
\* putData, and a block a write traversal has put stands where that put left
\* it.

MaxOrderWrites == 2
OrderCap == 12
OrderOffsets ==
  {0, FIRST_DATA_BLOCK_BYTE, FIRST_SINGLY_INDIRECT_BYTE,
   FIRST_SINGLY_INDIRECT_BYTE + BLOCK_SIZE,
   FIRST_SINGLY_INDIRECT_BYTE + (BLOCK_SIZE \div PTR_SIZE) * BLOCK_SIZE}
OrderSizes == {1, BLOCK_SIZE + 2, 30}

OrderStart(m, nx) ==
  /\ WorldIs(Inode_init(m.w, createInode(0), m.rootInode, nx.val).w)
  /\ inodeStream = nx.s
  /\ rootInode = m.rootInode
  /\ nodes = <<[inode |-> Inode_init(m.w, createInode(0), m.rootInode, nx.val).i,
                inodeNum |-> nx.val]>>

OrderInit ==
  /\ OrderStart(mount(EmptyMap, EmptyMap, OrderCap),
                IntStream_next(mount(EmptyMap, EmptyMap, OrderCap).inodeStream))
  /\ phase = "mounted"
  /\ handles = <<>>
  /\ last = [op |-> "init"]
  /\ ghost = [writes |-> 0]

OrderWritten(r, offset, n) ==
  /\ SetWorld(r.w)
  /\ nodes' = [nodes EXCEPT ![1].inode = r.i]
  /\ phase' = IF r.panic THEN "exit" ELSE "mounted"
  /\ last' = [op |-> "write", offset |-> offset, size |-> n, panic |-> r.panic]
  /\ ghost' = [writes |-> ghost.writes + 1]
  /\ UNCHANGED <<inodeStream, rootInode, handles>>

\* inode.writeToData(data, offset)
OrderWrite ==
  /\ phase = "mounted"
  /\ ghost.writes < MaxOrderWrites
  /\ \E offset \in OrderOffsets, n \in OrderSizes :
       OrderWritten(writeToData(World, nodes[1].inode, Chunk(offset, n), offset),
                    offset, n)

SpecOrder == OrderInit /\ [][OrderWrite]_vars

\* The pointers of data block n as the fast table has it.
PointersIn(n) ==
  IF genDataKey(n) \in DOMAIN dynamo THEN PointersOf(dynamo[genDataKey(n)]) ELSE {}

\* The pointer blocks of the inode: its singly and doubly indirect block and
\* the indirect blocks the doubly indirect block points to.
PointerBlocks(i) ==
  ({i.Data[IND_BLOCK + 1], i.Data[DOUB_IND_BLOCK + 1]} \ {0})
    \cup PointersIn(i.Data[DOUB_IND_BLOCK + 1])

\* The place of data block n in the LRU sequence; 0 when it is not tracked.
PlaceOf(n) ==
  IF genDataKey(n) \in SeqSet(queue)
    THEN CHOOSE k \in 1 .. Len(queue) : queue[k] = genDataKey(n)
    ELSE 0

MaxCacheOps == 5
MaxCacheKeys == 3
MaxBlockVal == 2

CacheKeys == {genDataKey(n) : n \in 1 .. MaxCacheKeys}
BlockOf(v) == [k \in 1 .. BLOCK_SIZE |-> v]

CacheInit ==
  /\ \E c \in 1 .. MaxCap : WorldIs(EmptyWorld(c))
  /\ inodeStream = NewStream(ROOT_INODE)
  /\ rootInode = ROOT_INODE
  /\ phase = "mounted"
  /\ nodes = <<>>
  /\ handles = <<>>
  /\ last = [op |-> "init"]
  /\ ghost = [ops |-> 0, touch |-> EmptyMap]

\* The touches after a call that left the world w; touched: the call was a
\* successful addBlock or getBlock of key.
Touched(w, key, touched) ==
  [k \in w.keyHash |->
     IF k = key /\ touched THEN ghost.ops + 1
     ELSE IF k \in DOMAIN ghost.touch THEN ghost.touch[k] ELSE 0]

CacheServing == ghost.ops < MaxCacheOps

CacheStep(op, key, w, err, touched) ==
  /\ SetWorld(w)
  /\ last' = [op |-> op, key |-> key, err |-> err, panic |-> w.panic,
              pre |-> World, touch |-> ghost.touch]
  /\ ghost' = [ops |-> ghost.ops + 1, touch |-> Touched(w, key, touched)]
  /\ UNCHANGED <<inodeStream, rootInode, phase, nodes, handles>>

\* putDataByKey, that is cache.addBlock
CachePut ==
  /\ CacheServing
  /\ \E key \in CacheKeys, v \in 1 .. MaxBlockVal :
       CacheStep("put", key, putDataByKey(World, key, BlockOf(v)), FALSE, TRUE)

CacheGetResult(r, key) == CacheStep("get", key, r.w, r.err, ~r.err)

\* cache.getBlock
CacheGet ==
  /\ CacheServing
  /\ \E key \in CacheKeys : CacheGetResult(Cache_getBlock(World, key), key)

CacheFetchResult(r, key) == CacheStep("fetch", key, r.w, r.err, ~r.err)

\* getDataByKey: getBlock and, on a miss, the bucket and addBlock
CacheFetch ==
  /\ CacheServing
  /\ \E key \in CacheKeys : CacheFetchResult(getDataByKey(World, key), key)

CacheDeleteResult(r, key) == CacheStep("delete", key, r.w, r.err, FALSE)

\* cache.deleteBlock
CacheDelete ==
  /\ CacheServing
  /\ \E key \in CacheKeys : CacheDeleteResult(Cache_deleteBlock(World, key), key)

\* deleteBlock: cache.deleteBlock and DeleteObject
StoreDelete ==
  /\ CacheServing
  /\ \E n \in 1 .. MaxCacheKeys :
       CacheStep("storeDelete", genDataKey(n), deleteBlock(World, n), FALSE, FALSE)

\* cache.empty
CacheEmpty ==
  /\ CacheServing
  /\ CacheStep("empty", <<>>, Cache_empty(World), FALSE, FALSE)

CacheNext ==
  \/ CachePut \/ CacheGet \/ CacheFetch
  \/ CacheDelete \/ StoreDelete \/ CacheEmpty

SpecCache == CacheInit /\ [][CacheNext]_vars

\* The last call was an addBlock of an untracked key that found the queue at
\* capacity.
EvictingPut ==
  /\ last.op = "put"
  /\ last.key \notin last.pre.keyHash
  /\ Len(last.pre.queue) = last.pre.cap

\* The block under key k in the bucket is not what it was before the call.
BucketPut(k) ==
  /\ k \in DOMAIN s3
  /\ k \in DOMAIN last.pre.s3 => s3[k] # last.pre.s3[k]

\* C14: the LRU sequence is never longer than the capacity, holds no key
\* twice, and the key map has a non-nil element for exactly its keys.
C14_TrackingWithinCapacity ==
  /\ Len(queue) <= cap
  /\ Cardinality(SeqSet(queue)) = Len(queue)
  /\ keyHash = SeqSet(queue)

\* The queue is full after an addBlock that had to evict.
C14_Witness == EvictingPut /\ ~last.panic /\ Len(queue) = cap /\ cap > 1

\* C15: the bucket gets a block only by an eviction: a call changes the block
\* of a key in the bucket only when it evicts that key, by addBlock at
\* capacity or by empty, and then to the block the fast table held; a put
\* that evicts nothing leaves the bucket as it was.
C15_BucketPutOnlyByEviction ==
  last.op # "init" =>
    \A k \in CacheKeys :
      BucketPut(k) =>
        /\ k \in DOMAIN last.pre.dynamo /\ s3[k] = last.pre.dynamo[k]
        /\ k \notin DOMAIN dynamo
        /\ \/ last.op = "empty" /\ k \in SeqSet(last.pre.queue)
           \/ EvictingPut /\ k = Head(last.pre.queue)
           \/ /\ last.op = "fetch" /\ last.key \notin last.pre.keyHash
              /\ Len(last.pre.queue) = last.pre.cap /\ k = Head(last.pre.queue)

\* A put has evicted a key and the bucket has its block; the key that was put
\* is in the fast table alone.
C15_Witness ==
  /\ EvictingPut /\ ~last.panic
  /\ BucketPut(Head(last.pre.queue))
  /\ last.key \in DOMAIN dynamo /\ last.key \notin DOMAIN s3

\* C16: an addBlock of an untracked key at capacity evicts the tracked key
\* whose latest successful addBlock or getBlock is the oldest; an addBlock of
\* a tracked key evicts nothing and makes the key the most recent.
C16_EvictsLeastRecentlyUsed ==
  /\ EvictingPut =>
       \E e \in last.pre.keyHash :
         /\ last.pre.keyHash \ keyHash = {e}
         /\ \A k \in last.pre.keyHash : last.touch[e] <= last.touch[k]
  /\ (last.op = "put" /\ last.key \in last.pre.keyHash) =>
       /\ keyHash = last.pre.keyHash
       /\ s3 = last.pre.s3
       /\ queue[Len(queue)] = last.key

\* An eviction took a key other than the one that was added first: the key
\* at the front was tracked later than another key.
C16_Witness ==
  /\ EvictingPut /\ ~last.panic /\ cap > 1
  /\ \E k \in keyHash \ {last.key} :
       last.touch[k] > last.touch[Head(last.pre.queue)]

\* C17: Cache.deleteBlock returns an error exactly when the key is not
\* tracked, and then changes nothing; for a tracked key it takes the key out
\* of the tracking and the fast table and writes nothing to the bucket.
C17_DeleteBlock ==
  last.op = "delete" =>
    /\ last.err <=> last.key \notin last.pre.keyHash
    /\ last.err => World = last.pre
    /\ ~last.err =>
         /\ last.key \notin keyHash /\ last.key \notin SeqSet(queue)
         /\ last.key \notin DOMAIN dynamo
         /\ s3 = last.pre.s3

\* A tracked key whose block the bucket never got has been deleted.
C17_Witness ==
  /\ last.op = "delete" /\ ~last.err
  /\ last.key \in DOMAIN last.pre.dynamo
  /\ last.key \notin DOMAIN s3

\* C18: after Cache.empty returned without error every key that was tracked
\* is out of the fast table and no key is tracked: the LRU sequence and the
\* key map are empty.
C18_EmptyEvictsAll ==
  (last.op = "empty" /\ ~last.panic) =>
    /\ \A k \in last.pre.keyHash : k \notin DOMAIN dynamo
    /\ queue = <<>>
    /\ keyHash = {}

\* Every tracked key has its item in the fast table, as it is until
\* Cache.empty, which FS.Destroy calls last.
Coherent(w) == w.keyHash \subseteq DOMAIN w.dynamo

\* The last call was a getDataByKey of an untracked key.
FetchOfUntracked ==
  /\ last.op = "fetch"
  /\ last.key \notin last.pre.keyHash
  /\ Coherent(last.pre)

\* C29: getDataByKey of an untracked key that the bucket has returns the
\* bucket's block and leaves the key at the most-recent end of the tracking
\* with that block in the fast table, the least recent key having left the
\* tracking if the cache was full; of a key in neither store it returns a
\* zero block and an error and leaves the tracking and the fast table as
\* they were.
C29_GetDataByKeyMiss ==
  FetchOfUntracked =>
    IF last.key \in DOMAIN last.pre.s3
      THEN /\ ~last.err /\ ~last.panic
           /\ getDataByKey(last.pre, last.key).data = last.pre.s3[last.key]
           /\ last.key \in DOMAIN dynamo /\ dynamo[last.key] = last.pre.s3[last.key]
           /\ queue = Append(IF Len(last.pre.queue) = last.pre.cap
                               THEN Tail(last.pre.queue) ELSE last.pre.queue,
                             last.key)
           /\ keyHash = SeqSet(queue)
      ELSE /\ last.err
           /\ getDataByKey(last.pre, last.key).data = ZeroBytes(BLOCK_SIZE)
           /\ queue = last.pre.queue
           /\ keyHash = last.pre.keyHash
           /\ dynamo = last.pre.dynamo

\* A block was fetched from the bucket into a full cache.
C29_Witness ==
  /\ FetchOfUntracked
  /\ last.key \in DOMAIN last.pre.s3
  /\ Len(last.pre.queue) = last.pre.cap
  /\ cap > 1
  /\ Head(last.pre.queue) \notin keyHash

\* =============================================================== SpecEvict
\* Cache.addBlock and the Cache.evictBlock it calls, one request to the fast
\* table or to the bucket at a time, in the order of the code.  phase is the
\* position in evictBlock; ghost keeps the key being evicted (evictKey), the
\* item DeleteItem returned (old), the key addBlock is adding (newKey) and
\* the block of the latest addBlock of every key (latest).  PutObject
\* succeeds or fails.

MaxEvictOps == 4

EvictInit ==
  /\ \E c \in 1 .. MaxCap : WorldIs(EmptyWorld(c))
  /\ inodeStream = NewStream(ROOT_INODE)
  /\ rootInode = ROOT_INODE
  /\ phase = "mounted"
  /\ nodes = <<>>
  /\ handles = <<>>
  /\ last = [op |-> "init"]
  /\ ghost = [ops |-> 0, latest |-> EmptyMap, evictKey |-> <<>>, old |-> <<>>,
              newKey |-> <<>>]

\* addBlock that has nothing to evict: the key is tracked or the queue is not
\* full.
AddBlockRoom ==
  /\ phase = "mounted"
  /\ ghost.ops < MaxEvictOps
  /\ \E key \in CacheKeys, v \in 1 .. MaxBlockVal :
       /\ key \in keyHash \/ Len(queue) < cap
       /\ SetWorld(Cache_addBlock(World, BlockOf(v), key))
       /\ last' = [op |-> "put", key |-> key]
       /\ ghost' = [ghost EXCEPT !.ops = @ + 1,
                                 !.latest = MapPut(@, key, BlockOf(v))]
  /\ UNCHANGED <<inodeStream, rootInode, phase, nodes, handles>>

\* addBlock of an untracked key with the queue at capacity, up to its call of
\* evictBlock: PutItem of the new block, the front of the queue removed from
\* the queue and from keyHash.
AddBlockFull ==
  /\ phase = "mounted"
  /\ ghost.ops < MaxEvictOps
  /\ Len(queue) = cap
  /\ \E key \in CacheKeys \ keyHash, v \in 1 .. MaxBlockVal :
       /\ dynamo' = MapPut(dynamo, key, BlockOf(v))
       /\ ghost' = [ghost EXCEPT !.ops = @ + 1,
                                 !.latest = MapPut(@, key, BlockOf(v)),
                                 !.evictKey = Head(queue),
                                 !.newKey = key]
       /\ last' = [op |-> "put", key |-> key]
  /\ queue' = Tail(queue)
  /\ keyHash' = keyHash \ {Head(queue)}
  /\ phase' = "evictDelete"
  /\ UNCHANGED <<s3, cap, dataStream, inodeStream, rootInode, nodes, handles>>

\* evictBlock, DeleteItem with ReturnValues ALL_OLD: the item leaves the fast
\* table and its value is kept for the PutObject.  Without an item the error
\* message dereferences a nil err and addBlock ends in the panic.
EvictDeleteItem ==
  /\ phase = "evictDelete"
  /\ dynamo' = MapDrop(dynamo, ghost.evictKey)
  /\ IF ghost.evictKey \in DOMAIN dynamo
       THEN /\ phase' = "evictPut"
            /\ ghost' = [ghost EXCEPT !.old = dynamo[ghost.evictKey]]
            /\ last' = [op |-> "deleteItem", key |-> ghost.evictKey]
       ELSE /\ phase' = "mounted"
            /\ ghost' = ghost
            /\ last' = [op |-> "evict", key |-> ghost.evictKey, putFailed |-> FALSE,
                        err |-> TRUE]
  /\ UNCHANGED <<s3, queue, keyHash, cap, dataStream, inodeStream, rootInode,
                 nodes, handles>>

\* evictBlock, PutObject of the value and return nil whatever PutObject
\* answered; then the end of addBlock, PushBack of the new key.
EvictPutObject ==
  /\ phase = "evictPut"
  /\ \E ok \in BOOLEAN :
       /\ s3' = IF ok THEN MapPut(s3, ghost.evictKey, ghost.old) ELSE s3
       /\ last' = [op |-> "evict", key |-> ghost.evictKey, putFailed |-> ~ok,
                   err |-> FALSE]
  /\ queue' = Append(queue, ghost.newKey)
  /\ keyHash' = keyHash \cup {ghost.newKey}
  /\ phase' = "mounted"
  /\ UNCHANGED <<dynamo, cap, dataStream, inodeStream, rootInode, nodes, handles,
                 ghost>>

EvictNext ==
  \/ AddBlockRoom \/ AddBlockFull
  \/ EvictDeleteItem \/ EvictPutObject

SpecEvict == EvictInit /\ [][EvictNext]_vars

\* The latest block of key k is in the fast table or in the bucket.
Kept(k) ==
  \/ k \in DOMAIN dynamo /\ dynamo[k] = ghost.latest[k]
  \/ k \in DOMAIN s3 /\ s3[k] = ghost.latest[k]

\* C26: at every step of an eviction the latest block of every key, the
\* evicted one included, is in the fast table or in the bucket, and an
\* evictBlock whose PutObject failed returns an error.
C26_EvictionKeepsBlock ==
  /\ \A k \in DOMAIN ghost.latest : Kept(k)
  /\ (last.op = "evict" /\ last.putFailed) => last.err

\* ==================================================================== Spec
\* The mounted file system under the requests the kernel sends, one handler
\* at a time.  nodes holds the Dir and File structs the kernel refers to
\* (slot 1 is the root, from FS.Root), handles the DirHandle and FileHandle
\* structs; a handle points to the inode of the node it was opened on, so it
\* names the node's slot.  ghost counts the requests (ops) and remembers, for
\* C2 and C6, what the user was told:
\*   files   name in the root -> [inum, content]: written through a handle
\*           that was then released, and not touched since
\*   dirs    the inode numbers of the directories a successful mkdir made and
\*           no successful remove took away
\* A node remembers the directory and name it was reached by (parent, name)
\* until a request changes that entry.

MaxNodes == 3
MaxHandles == 2
MaxOps == 5
MaxReuseOps == 6
MaxDirOps == 6
MaxDirNodes == 4
WriteSizes == {2, INODE_BUFFER_SIZE + 2}
FileNames == {"a", "b"}

NoNode ==
  [kind |-> "none", inodeNum |-> 0, inode |-> ZeroInode, parent |-> 0, name |-> ""]
NoHandle == [kind |-> "none", node |-> 0, table |-> NilTable, written |-> <<>>]

\* The first free slot of nodes or handles; 0 when all are in use.
FreeSlot(f) ==
  IF \E k \in DOMAIN f : f[k].kind = "none"
    THEN CHOOSE k \in DOMAIN f :
           f[k].kind = "none" /\ \A j \in DOMAIN f : f[j].kind = "none" => k <= j
    ELSE 0

DirNodes == {k \in DOMAIN nodes : nodes[k].kind = "dir"}
FileNodes == {k \in DOMAIN nodes : nodes[k].kind = "file"}
DirHandles == {h \in DOMAIN handles : handles[h].kind = "dir"}
FileHandles == {h \in DOMAIN handles : handles[h].kind = "file"}

\* The table a Dir struct's inode holds, and the inode the stores hold under
\* a number, as getInode sees it now.
MemTable(d) == getTable(World, nodes[d].inode).table
Stored(inodeNum) == getInode(World, inodeNum)
StoredTable(inodeNum) == getTable(World, Stored(inodeNum).inode).table

NewNode(kind, inodeNum, inode, parent, name) ==
  [kind |-> kind, inodeNum |-> inodeNum, inode |-> inode, parent |-> parent,
   name |-> name]

\* The nodes after the entries names of directory dirNum were changed.
ForgetNames(ns, dirNum, names) ==
  [k \in DOMAIN ns |->
     IF ns[k].parent = dirNum /\ ns[k].name \in names
       THEN [ns[k] EXCEPT !.parent = 0, !.name = ""] ELSE ns[k]]

DropNames(files, names) == [n \in (DOMAIN files) \ names |-> files[n]]
DropInum(files, k) == [n \in {x \in DOMAIN files : files[x].inum # k} |-> files[n]]
DropIfRoot(files, dirNum, names) ==
  IF dirNum = rootInode THEN DropNames(files, names) ELSE files

Tick(g) == [g EXCEPT !.ops = g.ops + 1]

Serving == phase = "mounted" /\ ghost.ops < ghost.limit

\* What a mount (m) and FS.Root (g) leave: the world, the FS and the root node.
StartRoot(m, g) ==
  [w |-> g.w, inodeStream |-> m.inodeStream, rootInode |-> m.rootInode,
   exit |-> m.exit \/ g.err,
   nodes |-> [k \in 1 .. MaxNodes |->
                IF k = 1 THEN NewNode("dir", m.rootInode, g.inode, 0, "")
                ELSE NoNode]]

Starting(m) == StartRoot(m, FS_Root(m.w, m.rootInode))

FsStart(st) ==
  /\ WorldIs(st.w)
  /\ inodeStream = st.inodeStream
  /\ rootInode = st.rootInode
  /\ nodes = st.nodes

\* What the operations that no property follows leave in last.
NoLast == [op |-> "other"]

\* A start with room for slots nodes.
WithSlots(st, slots) ==
  [st EXCEPT !.nodes = [k \in 1 .. slots |->
                          IF k \in DOMAIN st.nodes THEN st.nodes[k] ELSE NoNode]]

\* The program started on an empty table and an empty bucket, to serve limit
\* requests with at most slots nodes known to the kernel.
InitFor(limit, slots) ==
  /\ \E c \in 1 .. MaxCap :
       FsStart(WithSlots(Starting(mount(EmptyMap, EmptyMap, c)), slots))
  /\ phase = "mounted"
  /\ handles = [h \in 1 .. MaxHandles |-> NoHandle]
  /\ last = NoLast
  /\ ghost = [ops |-> 0, limit |-> limit, files |-> EmptyMap, dirs |-> {}]

Init == InitFor(MaxOps, MaxNodes)

\* Dir.Lookup: the kernel keeps the node it is answered with.
StepLookup(r, d, name) ==
  /\ SetWorld(r.w)
  /\ nodes' = IF r.err THEN nodes
              ELSE [nodes EXCEPT ![FreeSlot(nodes)] =
                      NewNode(IF r.inode.IsDir = 1 THEN "dir" ELSE "file",
                              r.inodeNum, r.inode, nodes[d].inodeNum, name)]
  /\ last' = NoLast
  /\ ghost' = Tick(ghost)
  /\ UNCHANGED <<inodeStream, rootInode, phase, handles>>

Lookup ==
  /\ Serving
  /\ FreeSlot(nodes) # 0
  /\ \E d \in DirNodes, name \in FileNames :
       StepLookup(Dir_Lookup(World, nodes[d].inode, name), d, name)

\* Dir.Mkdir, which the kernel sends for a name its lookup did not find.
StepMkdir(r, d, name) ==
  /\ SetWorld(r.w)
  /\ inodeStream' = r.inodeStream
  /\ nodes' = IF r.err \/ r.panic
                THEN [nodes EXCEPT ![d].inode = r.di]
                ELSE [nodes EXCEPT ![d].inode = r.di,
                                   ![FreeSlot(nodes)] =
                                     NewNode("dir", r.inodeNum, r.inode,
                                             nodes[d].inodeNum, name)]
  /\ last' = [op |-> "mkdir", err |-> r.err \/ r.panic, putErr |-> r.err,
              inodeNum |-> r.inodeNum,
              dirNum |-> nodes[d].inodeNum, name |-> name,
              before |-> StoredTable(nodes[d].inodeNum).Table]
  /\ ghost' = [Tick(ghost) EXCEPT
                 !.files = DropIfRoot(ghost.files, nodes[d].inodeNum, {name}),
                 !.dirs = IF r.err \/ r.panic THEN ghost.dirs
                          ELSE ghost.dirs \cup {r.inodeNum}]
  /\ UNCHANGED <<rootInode, phase, handles>>

Mkdir ==
  /\ Serving
  /\ FreeSlot(nodes) # 0
  /\ \E d \in DirNodes, name \in FileNames :
       /\ TableGet(MemTable(d), name) = 0
       /\ StepMkdir(Dir_Mkdir(World, nodes[d].inode, nodes[d].inodeNum, name,
                              inodeStream), d, name)

\* Dir.Create, for a new name or for a name the kernel knows as a file.
\* What the stores hold before a Create of name in the directory of node d.
BeforeCreate(d, name) ==
  [entry |-> TableGet(StoredTable(nodes[d].inodeNum), name),
   table |-> StoredTable(nodes[d].inodeNum).Table,
   target |-> Stored(TableGet(StoredTable(nodes[d].inodeNum), name)).inode,
   inodeStream |-> inodeStream]

StepCreate(r, d, name) ==
  /\ SetWorld(r.w)
  /\ inodeStream' = r.inodeStream
  /\ nodes' = IF r.err \/ r.panic
                THEN [nodes EXCEPT ![d].inode = r.di]
                ELSE [nodes EXCEPT ![d].inode = r.di,
                                   ![FreeSlot(nodes)] =
                                     NewNode("file", r.inodeNum, r.inode,
                                             nodes[d].inodeNum, name)]
  /\ handles' = IF r.err \/ r.panic THEN handles
                ELSE [handles EXCEPT ![FreeSlot(handles)] =
                        [kind |-> "file", node |-> FreeSlot(nodes),
                         table |-> NilTable, written |-> <<>>]]
  /\ last' = [op |-> "create", err |-> r.err \/ r.panic, inodeNum |-> r.inodeNum,
              dirNum |-> nodes[d].inodeNum, name |-> name,
              pre |-> BeforeCreate(d, name)]
  /\ ghost' = Tick(ghost)
  /\ UNCHANGED <<rootInode, phase>>

Create ==
  /\ Serving
  /\ FreeSlot(nodes) # 0
  /\ FreeSlot(handles) # 0
  /\ \E d \in DirNodes, name \in FileNames :
       /\ TableGet(MemTable(d), name) # 0 =>
            Stored(TableGet(MemTable(d), name)).inode.IsDir = 0
       /\ StepCreate(Dir_Create(World, nodes[d].inode, nodes[d].inodeNum, name,
                                inodeStream), d, name)

\* The directory entries with a name of FileNames that refer to inodeNum, in
\* the tables the stores hold.
Links(inodeNum) ==
  {e \in (1 .. inodeStream.lastInt) \X FileNames :
     /\ Stored(e[1]).inode.IsDir = 1
     /\ TableGet(StoredTable(e[1]), e[2]) = inodeNum}

\* The data blocks the writes to the file under the entry name of the
\* directory node d took from the data stream: the direct extents of the
\* inodes of the File structs reached by that entry.
AllocatedTo(d, name) ==
  {nodes[k].inode.Data[j] :
     k \in {f \in FileNodes : /\ nodes[f].parent = nodes[d].inodeNum
                              /\ nodes[f].name = name},
     j \in 1 .. NUM_DATA_BLOCKS} \ {0}

\* What Remove of the entry name of the directory node d finds: whether the
\* entry is the only link of its inode, the stored table of the directory,
\* the stored inode the entry refers to (target) and the number of entries
\* of its table, the two streams, the data blocks of the file, and whether the request before was the
\* successful Mkdir of this very entry, with the table stored before that.
BeforeRemove(d, name, inodeNum) ==
  [lastLink |-> Links(inodeNum) = {<<nodes[d].inodeNum, name>>},
   table |-> StoredTable(nodes[d].inodeNum).Table,
   target |-> Stored(inodeNum).inode,
   entries |-> Cardinality(DOMAIN StoredTable(inodeNum).Table),
   inodeStream |-> inodeStream,
   dataStream |-> dataStream,
   blocks |-> AllocatedTo(d, name),
   afterMkdir |-> /\ last.op = "mkdir" /\ ~last.err
                  /\ last.dirNum = nodes[d].inodeNum /\ last.name = name,
   mkdirBefore |-> IF last.op = "mkdir" THEN last.before ELSE EmptyMap]

\* The nodes after the directory with inode number k was removed: the kernel
\* marks a removed directory dead and sends no lookup, create, mkdir, remove,
\* rename or open for it any more; what is open on it can still be released.
Bury(ns, k) ==
  [j \in DOMAIN ns |->
     IF ns[j].kind = "dir" /\ ns[j].inodeNum = k
       THEN [ns[j] EXCEPT !.kind = "deaddir"] ELSE ns[j]]

StepRemove(r, d, name, pre) ==
  /\ SetWorld(r.w)
  /\ inodeStream' = r.inodeStream
  /\ nodes' = IF r.err THEN [nodes EXCEPT ![d].inode = r.di]
              ELSE Bury(ForgetNames([nodes EXCEPT ![d].inode = r.di],
                                    nodes[d].inodeNum, {name}),
                        r.inodeNum)
  /\ last' = [op |-> "remove", err |-> r.err, inodeNum |-> r.inodeNum,
              lastLink |-> pre.lastLink, dirNum |-> nodes[d].inodeNum,
              name |-> name, pre |-> pre]
  /\ ghost' = [Tick(ghost) EXCEPT
                 !.files = DropIfRoot(ghost.files, nodes[d].inodeNum, {name}),
                 !.dirs = IF r.err THEN ghost.dirs ELSE ghost.dirs \ {r.inodeNum}]
  /\ UNCHANGED <<rootInode, phase, handles>>

\* Dir.Remove as the kernel sends it: rmdir (req.Dir) for what it knows as a
\* directory and unlink for the rest, and neither for a name it does not find.
Remove ==
  /\ Serving
  /\ \E d \in DirNodes, name \in FileNames :
       /\ TableGet(MemTable(d), name) # 0
       /\ StepRemove(Dir_Remove(World, nodes[d].inode, nodes[d].inodeNum, name,
                                Stored(TableGet(MemTable(d), name)).inode.IsDir = 1,
                                inodeStream),
                     d, name, BeforeRemove(d, name, TableGet(MemTable(d), name)))

\* Dir.Remove with req.Dir of either value, as the protocol allows it.
RemoveAny ==
  /\ Serving
  /\ \E d \in DirNodes, name \in FileNames, reqDir \in BOOLEAN :
       /\ TableGet(MemTable(d), name) # 0
       /\ StepRemove(Dir_Remove(World, nodes[d].inode, nodes[d].inodeNum, name,
                                reqDir, inodeStream),
                     d, name, BeforeRemove(d, name, TableGet(MemTable(d), name)))

\* Dir.Rename; the kernel answers without calling the file system a rename
\* of an entry onto itself, of a name it does not find, and of a directory
\* onto a file or a file onto a directory.
StepRename(r, d, oldName, nd, newName, inodeNum) ==
  /\ SetWorld(r.w)
  /\ nodes' = ForgetNames(
                ForgetNames([nodes EXCEPT ![d].inode = r.di, ![nd].inode = r.ndi],
                            nodes[d].inodeNum, {oldName}),
                nodes[nd].inodeNum, {newName})
  /\ last' = [op |-> "rename", err |-> r.err \/ r.panic, d |-> d, nd |-> nd,
              oldName |-> oldName, newName |-> newName, inodeNum |-> inodeNum]
  /\ ghost' = [Tick(ghost) EXCEPT
                 !.files = DropIfRoot(
                             DropIfRoot(ghost.files, nodes[d].inodeNum, {oldName}),
                             nodes[nd].inodeNum, {newName})]
  /\ UNCHANGED <<inodeStream, rootInode, phase, handles>>

Rename ==
  /\ Serving
  /\ \E d \in DirNodes, nd \in DirNodes, oldName \in FileNames, newName \in FileNames :
       /\ ~(d = nd /\ oldName = newName)
       /\ TableGet(MemTable(d), oldName) # 0
       /\ TableGet(MemTable(nd), newName) # 0 =>
            Stored(TableGet(MemTable(nd), newName)).inode.IsDir =
              Stored(TableGet(MemTable(d), oldName)).inode.IsDir
       /\ StepRename(Dir_Rename(World, nodes[d].inode, nodes[d].inodeNum, oldName,
                                nodes[nd].inode, nodes[nd].inodeNum, newName, d = nd),
                     d, oldName, nd, newName, TableGet(MemTable(d), oldName))

\* Dir.Open
StepOpenDir(r, d) ==
  /\ SetWorld(r.w)
  /\ handles' = IF r.err THEN handles
                ELSE [handles EXCEPT ![FreeSlot(handles)] =
                        [kind |-> "dir", node |-> d, table |-> r.table,
                         written |-> <<>>]]
  /\ last' = NoLast
  /\ ghost' = Tick(ghost)
  /\ UNCHANGED <<inodeStream, rootInode, phase, nodes>>

OpenDir ==
  /\ Serving
  /\ FreeSlot(handles) # 0
  /\ \E d \in DirNodes : StepOpenDir(Dir_Open(World, nodes[d].inode), d)

\* The inode numbers of a table's entries in the order of NameList.
RECURSIVE EntryNums(_, _)
EntryNums(t, k) ==
  IF k > Len(NameList) THEN <<>>
  ELSE (IF NameList[k] \in DOMAIN t.Table THEN <<t.Table[NameList[k]]>> ELSE <<>>)
       \o EntryNums(t, k + 1)

\* DirHandle.ReadDirAll; the order of the range over the map is not fixed:
\* here it is the order of NameList or its reverse.
ReadDirAll ==
  /\ Serving
  /\ \E h \in DirHandles, rev \in BOOLEAN :
       SetWorld(DirHandle_ReadDirAll(
                  World,
                  IF rev THEN Reverse(EntryNums(handles[h].table, 1))
                  ELSE EntryNums(handles[h].table, 1)))
  /\ last' = NoLast
  /\ ghost' = Tick(ghost)
  /\ UNCHANGED <<inodeStream, rootInode, phase, nodes, handles>>

\* DirHandle.Release
StepReleaseDir(r, h) ==
  /\ SetWorld(r.w)
  /\ nodes' = [nodes EXCEPT ![handles[h].node].inode = r.i]
  /\ handles' = [handles EXCEPT ![h] = NoHandle]
  /\ last' = [op |-> "releaseDir", dirNum |-> nodes[handles[h].node].inodeNum,
              opened |-> handles[h].table,
              before |-> StoredTable(nodes[handles[h].node].inodeNum)]
  /\ ghost' = Tick(ghost)
  /\ UNCHANGED <<inodeStream, rootInode, phase>>

ReleaseDir ==
  /\ Serving
  /\ \E h \in DirHandles :
       StepReleaseDir(DirHandle_Release(World, nodes[handles[h].node].inode,
                                        handles[h].table,
                                        nodes[handles[h].node].inodeNum), h)

\* File.Open
OpenFile ==
  /\ Serving
  /\ FreeSlot(handles) # 0
  /\ \E f \in FileNodes :
       handles' = [handles EXCEPT ![FreeSlot(handles)] =
                     [kind |-> "file", node |-> f, table |-> NilTable,
                      written |-> <<>>]]
  /\ last' = NoLast
  /\ ghost' = Tick(ghost)
  /\ UNCHANGED <<worldVars, inodeStream, rootInode, phase, nodes>>

\* FileHandle.Write of a whole content at offset 0.  What another handle of
\* the same inode number wrote is no longer what its file holds.
StepWrite(r, h, data) ==
  /\ SetWorld(r.w)
  /\ nodes' = [nodes EXCEPT ![handles[h].node].inode = r.i]
  /\ handles' = [k \in DOMAIN handles |->
                   IF k = h THEN [handles[k] EXCEPT !.written = data]
                   ELSE IF handles[k].kind = "file" /\
                           nodes[handles[k].node].inodeNum =
                             nodes[handles[h].node].inodeNum
                     THEN [handles[k] EXCEPT !.written = <<>>]
                     ELSE handles[k]]
  /\ last' = NoLast
  /\ ghost' = [Tick(ghost) EXCEPT
                 !.files = DropInum(ghost.files, nodes[handles[h].node].inodeNum)]
  /\ UNCHANGED <<inodeStream, rootInode, phase>>

Write ==
  /\ Serving
  /\ \E h \in FileHandles, n \in WriteSizes :
       StepWrite(FileHandle_Write(World, nodes[handles[h].node].inode,
                                  Chunk(10 * nodes[handles[h].node].inodeNum, n), 0),
                 h, Chunk(10 * nodes[handles[h].node].inodeNum, n))

\* FileHandle.Read of the whole file, as the kernel asks for it.
StepRead(r) ==
  /\ SetWorld(r.w)
  /\ last' = [op |-> "read", err |-> r.err, data |-> r.data]
  /\ ghost' = Tick(ghost)
  /\ UNCHANGED <<inodeStream, rootInode, phase, nodes, handles>>

Read ==
  /\ Serving
  /\ \E h \in FileHandles :
       /\ nodes[handles[h].node].inode.Size > 0
       /\ StepRead(FileHandle_Read(World, nodes[handles[h].node].inode, 0,
                                   nodes[handles[h].node].inode.Size))

\* FileHandle.Release; the kernel does not pass its error on to close().
StepReleaseFile(r, h) ==
  /\ SetWorld(r.w)
  /\ handles' = [handles EXCEPT ![h] = NoHandle]
  /\ last' = [op |-> "releaseFile", err |-> r.err,
              inodeNum |-> nodes[handles[h].node].inodeNum,
              before |-> Stored(nodes[handles[h].node].inodeNum).inode]
  /\ ghost' = [Tick(ghost) EXCEPT
                 !.files =
                   IF /\ handles[h].written # <<>>
                      /\ nodes[handles[h].node].parent = rootInode
                      /\ nodes[handles[h].node].name \in FileNames
                     THEN MapPut(ghost.files, nodes[handles[h].node].name,
                                 [inum |-> nodes[handles[h].node].inodeNum,
                                  content |-> handles[h].written])
                     ELSE ghost.files]
  /\ UNCHANGED <<inodeStream, rootInode, phase, nodes>>

ReleaseFile ==
  /\ Serving
  /\ \E h \in FileHandles :
       StepReleaseFile(FileHandle_Release(World, nodes[handles[h].node].inode,
                                          nodes[handles[h].node].inodeNum), h)

\* The kernel forgets a node it has no handle on.
Forget ==
  /\ Serving
  /\ \E n \in {k \in DOMAIN nodes : nodes[k].kind # "none"} \ {1} :
       /\ \A h \in DOMAIN handles : handles[h].node # n
       /\ nodes' = [nodes EXCEPT ![n] = NoNode]
  /\ last' = NoLast
  /\ ghost' = Tick(ghost)
  /\ UNCHANGED <<worldVars, inodeStream, rootInode, phase, handles>>

\* FS.Destroy, on unmount or on a signal; the process ends and its structs
\* with it.
StepDestroy(r) ==
  /\ SetWorld(r.w)
  /\ inodeStream' = r.inodeStream
  /\ phase' = "down"
  /\ nodes' = [k \in 1 .. MaxNodes |-> NoNode]
  /\ handles' = [h \in 1 .. MaxHandles |-> NoHandle]
  /\ last' = NoLast
  /\ ghost' = Tick(ghost)
  /\ UNCHANGED rootInode

Destroy ==
  /\ Serving
  /\ StepDestroy(FS_Destroy(World, inodeStream, rootInode))

\* The program started again on the same table and bucket.
StepMount(st) ==
  /\ SetWorld(st.w)
  /\ inodeStream' = st.inodeStream
  /\ rootInode' = st.rootInode
  /\ nodes' = st.nodes
  /\ phase' = IF st.exit THEN "exit" ELSE "mounted"
  /\ last' = [op |-> "mount"]
  /\ UNCHANGED <<handles, ghost>>

Mount ==
  /\ phase = "down"
  /\ StepMount(Starting(mount(dynamo, s3, cap)))

Next ==
  \/ Lookup \/ Mkdir \/ Create \/ Remove \/ Rename
  \/ OpenDir \/ ReadDirAll \/ ReleaseDir
  \/ OpenFile \/ Write \/ Read \/ ReleaseFile
  \/ Forget \/ Destroy \/ Mount

Spec == Init /\ [][Next]_vars

\* The operations on files and Mkdir alone, followed one request further:
\* the reuse of the inode number of a removed file takes six requests.
InitReuse == InitFor(MaxReuseOps, MaxNodes)

NextReuse ==
  \/ Mkdir \/ Create \/ Remove
  \/ OpenFile \/ Write \/ ReleaseFile

SpecReuse == InitReuse /\ [][NextReuse]_vars

\* writeTest with a small file: the requests on files of the root, a write
\* being of a piece that fits in the inode's buffer, after a mount on an empty
\* table and bucket or after a mount on what that one left at its FS.Destroy.
\* ghost.bucket is the bucket as the mount left it.
MaxSmallCap == 3
MaxSmallOps == 5

SmallSizes == {1, INODE_BUFFER_SIZE}

\* The mount that follows the FS.Destroy of the file system st.
Remounted(st, c) ==
  mount(FS_Destroy(st.w, st.inodeStream, st.rootInode).w.dynamo,
        FS_Destroy(st.w, st.inodeStream, st.rootInode).w.s3, c)

InitSmall ==
  /\ \E c \in 1 .. MaxSmallCap, again \in BOOLEAN :
       /\ FsStart(IF again
                    THEN Starting(Remounted(Starting(mount(EmptyMap, EmptyMap, c)), c))
                    ELSE Starting(mount(EmptyMap, EmptyMap, c)))
       /\ ghost = [ops |-> 0, limit |-> MaxSmallOps, files |-> EmptyMap, dirs |-> {},
                   bucket |-> s3, again |-> again]
  /\ phase = "mounted"
  /\ handles = [h \in 1 .. MaxHandles |-> NoHandle]
  /\ last = NoLast

\* FileHandle.Write of a piece that fits in the inode's buffer, at offset 0.
WriteSmall ==
  /\ Serving
  /\ \E h \in FileHandles, n \in SmallSizes :
       StepWrite(FileHandle_Write(World, nodes[handles[h].node].inode,
                                  Chunk(10 * nodes[handles[h].node].inodeNum, n), 0),
                 h, Chunk(10 * nodes[handles[h].node].inodeNum, n))

NextSmall ==
  \/ Create \/ WriteSmall \/ ReleaseFile
  \/ OpenFile \/ Read

SpecSmall == InitSmall /\ [][NextSmall]_vars

\* The requests that make and remove entries, Remove with req.Dir of either
\* value.
InitDir == InitFor(MaxDirOps, MaxDirNodes)

NextDir ==
  \/ Lookup \/ Mkdir \/ Create
  \/ ReleaseFile \/ RemoveAny \/ Forget

SpecDir == InitDir /\ [][NextDir]_vars

-----------------------------------------------------------------------------
\* Properties of Spec.

\* The inode numbers of the directories found from the root through the
\* tables the stores hold, in at most n more steps.
RECURSIVE LiveDirsFrom(_, _)
LiveDirsFrom(ds, n) ==
  IF n = 0 THEN ds
  ELSE LiveDirsFrom(
         ds \cup {k \in 2 .. inodeStream.lastInt :
                    /\ Stored(k).inode.IsDir = 1
                    /\ \E d \in ds, name \in FileNames :
                         TableGet(StoredTable(d), name) = k},
         n - 1)

LiveDirs == LiveDirsFrom({rootInode}, MaxOps)

StackSet(s) == {s.stack[k] : k \in 1 .. Len(s.stack)}

TableValues(t) == {t.Table[name] : name \in DOMAIN t.Table}

\* What a lookup of name from the root followed by a read of the whole file
\* gives.
ReadOf(l) ==
  IF l.err THEN [found |-> FALSE, data |-> <<>>]
  ELSE [found |-> TRUE,
        data |-> readFromData(World, l.inode, 0, l.inode.Size).data]

ReadByName(name) == ReadOf(Dir_Lookup(World, nodes[1].inode, name))

\* C2: after a clean shutdown (FS.Destroy) and a mount on the same table and
\* bucket, every file of the root that was written and released before the
\* shutdown is found by a lookup from the root and reads back the bytes that
\* were written, whatever the capacity of the cache.
C2_RemountKeepsFiles ==
  (last.op = "mount" /\ phase = "mounted") =>
    \A name \in DOMAIN ghost.files :
      /\ ReadByName(name).found
      /\ ReadByName(name).data = ghost.files[name].content

\* C5: no inode number is at once on the free stack of the inode stream and
\* a value of the stored table of a directory.
C5_FreeInodeNotReferenced ==
  phase = "mounted" =>
    \A d \in LiveDirs : StackSet(inodeStream) \cap TableValues(StoredTable(d)) = {}

\* C6: the stored table of every live directory, the root and every
\* directory made by Mkdir and not removed since, has the entries "." and
\* "..".
C6_LiveDirsHaveDots ==
  phase = "mounted" =>
    \A k \in {rootInode} \cup ghost.dirs :
      {".", ".."} \subseteq DOMAIN StoredTable(k).Table

\* C11: Mkdir of a name followed at once by Remove of that name leaves the
\* stored table of the directory with the entries it had before the Mkdir.
C11_MkdirRemoveRestoresTable ==
  (last.op = "remove" /\ last.pre.afterMkdir) =>
    /\ ~last.err
    /\ StoredTable(last.dirNum).Table = last.pre.mkdirBefore

\* The data-block numbers an inode holds in its direct extents.
HeldBlocks(i) ==
  {i.Data[j] : j \in 1 .. Min(NumBlocksToDelete(i), NUM_DATA_BLOCKS)}

\* C19: Remove of a name that refers to a directory with more entries than
\* "." and ".." fails, whatever req.Dir is, and leaves the table of the
\* parent, the stored inode of the directory (link count, size, extents) and
\* the two streams as they were.
C19_RemoveNonEmptyDirFails ==
  (last.op = "remove" /\ last.pre.target.IsDir = 1 /\ last.pre.entries > 2) =>
    /\ last.err
    /\ StoredTable(last.dirNum).Table = last.pre.table
    /\ Stored(TableGet(StoredTable(last.dirNum), last.name)).inode = last.pre.target
    /\ inodeStream = last.pre.inodeStream
    /\ dataStream = last.pre.dataStream

\* C20: when Remove takes the link count of an inode to zero, the numbers of
\* the data blocks the inode held are on the stack of the data stream, for
\* next() to hand out again, and the inode number is on the stack of the
\* inode stream.
C20_RemoveFreesBlocks ==
  (last.op = "remove" /\ ~last.err /\ last.pre.target.LinkCount = 1) =>
    /\ HeldBlocks(last.pre.target) \subseteq StackSet(dataStream)
    /\ last.inodeNum \in StackSet(inodeStream)

\* C9: after a Remove that took away the last link of an inode, the number of
\* the inode is on the free stack and the next call of next() returns it,
\* were the handle of its Create released or not.
C9_RemoveFreesInode ==
  (last.op = "remove" /\ ~last.err /\ last.lastLink) =>
    /\ last.inodeNum \in StackSet(inodeStream)
    /\ IntStream_next(inodeStream).val = last.inodeNum

\* C10: after a Rename that succeeded, the lookup of the old name in the
\* source directory fails with ENOENT and the lookup of the new name in the
\* target directory gives the inode number the old name had, the two
\* directories being the same or not.
C10_RenameMovesEntry ==
  (last.op = "rename" /\ ~last.err) =>
    /\ Dir_Lookup(World, nodes[last.d].inode, last.oldName).err
    /\ ~Dir_Lookup(World, nodes[last.nd].inode, last.newName).err
    /\ Dir_Lookup(World, nodes[last.nd].inode, last.newName).inodeNum = last.inodeNum

\* A rename from one directory into another has succeeded.
C10_Witness ==
  /\ last.op = "rename" /\ ~last.err
  /\ last.inodeNum # 0
  /\ nodes[last.d].inodeNum # nodes[last.nd].inodeNum
  /\ Dir_Lookup(World, nodes[last.nd].inode, last.newName).inodeNum = last.inodeNum

\* A rename inside one directory has succeeded.
C10_WitnessSameDir ==
  /\ last.op = "rename" /\ ~last.err
  /\ last.inodeNum # 0
  /\ last.d = last.nd
  /\ Dir_Lookup(World, nodes[last.nd].inode, last.newName).inodeNum = last.inodeNum

\* C21: when Dir.Create of a name the directory does not have returns, getInode
\* of the new inode number gives an inode with LinkCount 1 and IsDir 0, before
\* any Release of the handle.
C21_CreatePersistsInode ==
  (last.op = "create" /\ ~last.err /\ last.pre.entry = 0) =>
    /\ ~Stored(last.inodeNum).err
    /\ Stored(last.inodeNum).inode.LinkCount = 1
    /\ Stored(last.inodeNum).inode.IsDir = 0

\* C22: Dir.Create of a name the directory has already answers the inode
\* number of that entry, takes no number from the inode stream and leaves the
\* stored table of the directory and the stored inode of the entry as they
\* were.
C22_CreateExistingOpens ==
  (last.op = "create" /\ last.pre.entry # 0) =>
    /\ ~last.err
    /\ last.inodeNum = last.pre.entry
    /\ inodeStream = last.pre.inodeStream
    /\ StoredTable(last.dirNum).Table = last.pre.table
    /\ Stored(last.pre.entry).inode = last.pre.target

\* C23: an entry that was added to or removed from a directory while a
\* handle on it was open is, after the Release of the handle, in the stored
\* table as it was before the Release.
C23_ReleaseKeepsChanges ==
  last.op = "releaseDir" =>
    \A name \in FileNames :
      TableGet(last.opened, name) # TableGet(last.before, name) =>
        TableGet(StoredTable(last.dirNum), name) = TableGet(last.before, name)

\* The blocks of the file system, in the fast table or in the bucket.
AllBlocks == (DOMAIN dynamo) \cup (DOMAIN s3)

\* C24: creating a file, writing a piece that fits in the inode's buffer,
\* releasing, opening again and reading puts nothing to the bucket when the
\* cache has room for every block of the file system, after a mount on empty
\* stores and after a mount on an existing superblock.
C24_NoBucketPutWithRoom ==
  Cardinality(AllBlocks) <= cap => s3 = ghost.bucket

\* A file of the root was created, written, released, opened again and read
\* back, after a mount on an existing superblock.
C24_Witness ==
  /\ ghost.again
  /\ Cardinality(AllBlocks) <= cap
  /\ last.op = "read" /\ ~last.err
  /\ \E name \in DOMAIN ghost.files : last.data = ghost.files[name].content

\* C24 as the spec states it: the same for every capacity of the cache.
C24_NoBucketPut == s3 = ghost.bucket

\* C31: putInode of the new inode succeeds in every Dir.Mkdir, whatever
\* number the inode stream gave and whether or not the inode block of that
\* number exists.
C31_PutInodeSucceeds == last.op = "mkdir" => ~last.putErr

\* C34: after a successful Remove of the last link to a file, no data block
\* that was allocated to the file is in the fast table or in the bucket,
\* whatever was written to the file and whether or not its handle was
\* released.
C34_RemoveLeavesNoBlocks ==
  (last.op = "remove" /\ ~last.err /\ last.lastLink /\ last.pre.target.IsDir = 0) =>
    \A n \in last.pre.blocks : genDataKey(n) \notin AllBlocks

\* C35: the Release of a file handle whose file was removed and whose inode
\* number was given to a later mkdir (the number is that of a directory a
\* mkdir made and no remove took away) leaves the stored inode of that number
\* as it was.
C35_StaleReleaseKeepsOwner ==
  (last.op = "releaseFile" /\ last.inodeNum \in ghost.dirs) =>
    Stored(last.inodeNum).inode = last.before

\* C36: Remove never decrements a link count of 0: the inode a Remove that
\* went through read from the stores had a link count above 0, and the link
\* count it stored did not wrap around to 65535.
C36_LinkCountNeverWraps ==
  (last.op = "remove" /\ ~last.err) =>
    /\ last.pre.target.LinkCount > 0
    /\ Stored(last.inodeNum).inode.LinkCount # U16 - 1

\* C37: when Mkdir returns the error of putInode, the stored table of the
\* parent directory is what it was before the Mkdir, without an entry for the
\* name.
C37_FailedMkdirAddsNoEntry ==
  (last.op = "mkdir" /\ last.putErr) =>
    /\ TableGet(StoredTable(last.dirNum), last.name) = 0
    /\ StoredTable(last.dirNum).Table = last.before

\* C38: after a Rename that moved a directory, the ".." entry of the stored
\* table of the moved directory is the inode number of the directory whose
\* table now holds its entry.
C38_DotDotIsParent ==
  (/\ last.op = "rename" /\ ~last.err
   /\ Stored(last.inodeNum).inode.IsDir = 1
   /\ last.inodeNum # nodes[last.nd].inodeNum
   /\ TableGet(StoredTable(nodes[last.nd].inodeNum), last.newName) = last.inodeNum) =>
    TableGet(StoredTable(last.inodeNum), "..") = nodes[last.nd].inodeNum

\* ============================================================ SpecInodeBlock
\* putInode and getInode alone over empty stores: inodes are put under the
\* numbers 0 .. MaxPutNum, with caches small enough for inode blocks to be
\* evicted to the bucket and fetched back.  last keeps the call and what
\* getInode answered for every number before it (pre).

MaxPutNum == 3
MaxPutOps == 4
PutInodes == {[createInode(d) EXCEPT !.LinkCount = d + 1] : d \in {0, 1}}

StoredInodes == [m \in 0 .. MaxPutNum |-> Stored(m).inode]

PutInit ==
  /\ \E c \in 1 .. MaxCap : WorldIs(EmptyWorld(c))
  /\ inodeStream = NewStream(ROOT_INODE)
  /\ rootInode = ROOT_INODE
  /\ phase = "mounted"
  /\ nodes = <<>>
  /\ handles = <<>>
  /\ last = [op |-> "init"]
  /\ ghost = [ops |-> 0]

PutDone(r, op, inode, inodeNum) ==
  /\ SetWorld(r.w)
  /\ last' = [op |-> op, inode |-> inode, inodeNum |-> inodeNum, err |-> r.err,
              pre |-> StoredInodes]
  /\ ghost' = [ops |-> ghost.ops + 1]
  /\ UNCHANGED <<inodeStream, rootInode, phase, nodes, handles>>

PutInode ==
  /\ ghost.ops < MaxPutOps
  /\ \E inodeNum \in 0 .. MaxPutNum, inode \in PutInodes :
       PutDone(putInode(World, inode, inodeNum), "putInode", inode, inodeNum)

GetInode ==
  /\ ghost.ops < MaxPutOps
  /\ \E inodeNum \in 0 .. MaxPutNum :
       PutDone(getInode(World, inodeNum), "getInode",
               getInode(World, inodeNum).inode, inodeNum)

PutNext == PutInode \/ GetInode

SpecInodeBlock == PutInit /\ [][PutNext]_vars

SameBlock(m, n) == genInodeBlockKey(m) = genInodeBlockKey(n)

\* C32: after a putInode that succeeded, getInode of the number gives the
\* inode that was put, and getInode of every other number of the same inode
\* block gives what it gave before.
C32_PutGetInode ==
  (last.op = "putInode" /\ ~last.err) =>
    /\ ~Stored(last.inodeNum).err
    /\ Stored(last.inodeNum).inode = last.inode
    /\ \A m \in 0 .. MaxPutNum :
         (m # last.inodeNum /\ SameBlock(m, last.inodeNum)) =>
           Stored(m).inode = last.pre[m]

\* An inode was put next to a stored inode of the same block, over another
\* inode, while the block was in the bucket only.
C32_Witness ==
  /\ last.op = "putInode" /\ ~last.err
  /\ last.pre[last.inodeNum] \notin {ZeroInode, last.inode}
  /\ \E m \in 0 .. MaxPutNum :
       /\ m # last.inodeNum /\ SameBlock(m, last.inodeNum)
       /\ last.pre[m] # ZeroInode
  /\ s3 # EmptyMap

\* =============================================================== SpecAlloc
\* SpecSuper with the two allocators in use between the shutdowns: while the
\* file system is mounted, a create or mkdir takes the next inode number and
\* a write the next data-block number.

MaxTakes == MaxStack + 3

TakeInode ==
  /\ phase = "mounted"
  /\ inodeStream.lastInt < MaxTakes
  /\ inodeStream' = IntStream_next(inodeStream).s
  /\ last' = [op |-> "next", stream |-> "inode", val |-> IntStream_next(inodeStream).val]
  /\ UNCHANGED <<worldVars, rootInode, phase, nodes, handles, ghost>>

TakeData ==
  /\ phase = "mounted"
  /\ dataStream.lastInt < MaxDataLast + 1
  /\ dataStream' = IntStream_next(dataStream).s
  /\ last' = [op |-> "next", stream |-> "data", val |-> IntStream_next(dataStream).val]
  /\ UNCHANGED <<dynamo, s3, queue, keyHash, cap, inodeStream, rootInode, phase,
                 nodes, handles, ghost>>

AllocNext == SuperDestroy \/ SuperMount \/ TakeInode \/ TakeData

SpecAlloc == SuperInit /\ [][AllocNext]_vars

\* C33: neither stream's next() returns 0, and the inode stream's never the
\* root inode number: every number handed out is at least 2.
C33_IdentifiersAtLeastTwo == last.op = "next" => last.val >= 2

\* C40: MarshalBinary leaves the stream as it found it: after FS.Destroy,
\* which calls it on the inode stream, the stream has the stack, in the same
\* order, and the lastInt it had before.
C40_MarshalKeepsStream ==
  last.op = "destroy" => inodeStream = last.inodeStream

\* =============================================================== SpecStore
\* The block store as the inode layer calls it, with no failure of the fast
\* table or of the bucket: putDataByKey, getDataByKey and deleteBlock on a
\* few keys, over caches small enough for blocks to be evicted and fetched
\* back.  ghost keeps the block of the latest put of every key that was not
\* deleted since (latest); last keeps the call, what it returned and the
\* stores, the tracking and latest before it.

MaxStoreOps == 5
MaxStoreKeys == 2

StoreNums == 1 .. MaxStoreKeys

StoreInit ==
  /\ \E c \in 1 .. MaxCap : WorldIs(EmptyWorld(c))
  /\ inodeStream = NewStream(ROOT_INODE)
  /\ rootInode = ROOT_INODE
  /\ phase = "mounted"
  /\ nodes = <<>>
  /\ handles = <<>>
  /\ last = [op |-> "init"]
  /\ ghost = [ops |-> 0, latest |-> EmptyMap]

StoreStep(op, key, w, data, err, latest) ==
  /\ SetWorld(w)
  /\ last' = [op |-> op, key |-> key, data |-> data, err |-> err,
              panic |-> w.panic, pre |-> World, latest |-> ghost.latest]
  /\ ghost' = [ops |-> ghost.ops + 1, latest |-> latest]
  /\ UNCHANGED <<inodeStream, rootInode, phase, nodes, handles>>

StorePut ==
  /\ ghost.ops < MaxStoreOps
  /\ \E n \in StoreNums, v \in 1 .. MaxBlockVal :
       StoreStep("put", genDataKey(n), putDataByKey(World, genDataKey(n), BlockOf(v)),
                 BlockOf(v), FALSE, MapPut(ghost.latest, genDataKey(n), BlockOf(v)))

StoreGot(r, key) == StoreStep("get", key, r.w, r.data, r.err, ghost.latest)

StoreGet ==
  /\ ghost.ops < MaxStoreOps
  /\ \E n \in StoreNums : StoreGot(getDataByKey(World, genDataKey(n)), genDataKey(n))

StoreRemove ==
  /\ ghost.ops < MaxStoreOps
  /\ \E n \in StoreNums :
       StoreStep("delete", genDataKey(n), deleteBlock(World, n), <<>>, FALSE,
                 MapDrop(ghost.latest, genDataKey(n)))

StoreNext == StorePut \/ StoreGet \/ StoreRemove

SpecStore == StoreInit /\ [][StoreNext]_vars

\* C39: getDataByKey of a key returns the block of the latest putDataByKey of
\* that key, as long as the key was not deleted since, whatever was put, got
\* and deleted in between and whatever the capacity of the cache.
C39_GetReturnsLatestPut ==
  (last.op = "get" /\ last.key \in DOMAIN last.latest) =>
    /\ ~last.err /\ ~last.panic
    /\ last.data = last.latest[last.key]

\* A block that was put, evicted to the bucket and is no longer tracked is
\* fetched back by the get, which evicts another key.
C39_Witness ==
  /\ last.op = "get" /\ last.key \in DOMAIN last.latest
  /\ last.key \notin last.pre.keyHash
  /\ last.key \in DOMAIN last.pre.s3
  /\ last.pre.keyHash # {}
  /\ last.pre.keyHash \cap keyHash = {}
  /\ last.data = last.latest[last.key]

====
